---- MODULE Spec2Model ----
(***************************************************************************)
(* A model of cirrus-lib: the state store (StateDB), the start operation   *)
(* of a payload (ProcessPayload.__call__), the derivation of a payload id  *)
(* (update) and the store key of an id (catid_to_key / key_to_catid).      *)
(*                                                                         *)
(* Text is a sequence of tokens: the marker "/workflow-" and the separator *)
(* "/" are one token each, every other token is a character that occurs   *)
(* in neither, so str.split and str.join act on tokens as they act on the  *)
(* characters of the text.  A timestamp is a reading of one clock that     *)
(* moves on with every reading of datetime.now().                          *)
(***************************************************************************)
EXTENDS Integers, Sequences, FiniteSets, TLC

VARIABLES
    db,        \* the DynamoDB table: key -> item (an item maps attributes to values)
    now,       \* the clock: the last reading of datetime.now()
    req,       \* per caller: the store request it has built and not yet sent
    last,      \* the request the table applied last, with its outcome
    newest,    \* per key: the current_state with the greatest timestamp that an
               \* applied set_* request has embedded
    pc,        \* per caller of __call__: where it is in the method
    result,    \* per caller of __call__: what the call returned or raised
    arn,       \* per caller of __call__: the executionArn start_execution returned
    started,   \* the number of executions stepfunctions has started
    faulted,   \* whether an S3 upload or a start_execution has raised
    anId,      \* a payload id whose key is taken
    itsKey,    \* the key catid_to_key has made of anId
    roundtrip, \* the id key_to_catid has made of itsKey
    payload,   \* a payload: its features, its process and, once derived, its id
    original,  \* the payload before its features were reordered
    given,     \* the arguments of ProcessPayload(...): a raw payload and update
    made,      \* what ProcessPayload(...) gave: the payload, or the error raised
    assigning, \* the features and the upload_options that assign_collections is run on
    assigned,  \* the features after assign_collections
    completed, \* the payload of a completed stage, on which next_payloads is run
    yielded,   \* per run of next_payloads: the successors it has yielded
    derived,   \* per run of next_payloads: what ProcessPayload(s, update=True)
               \* gives for each successor s
    cb,        \* the callback table: callback_token -> item
    cbreq,     \* per caller: the request to the callback table it has built
    cblast,    \* the call of the CallbackDB that ended last, with its outcome, and
               \* the number of requests the callback table has applied
    resolves,  \* per token: the set_final_state requests the table has applied,
               \* in the order it applied them, with their outcomes
    batch,     \* a call of create_callbacks, set_final_state_multiple or
               \* set_final_state: its arguments, how far it is, and what each
               \* call of the table gave
    scan,      \* a call of get_payload_callback_tokens: its arguments, how far
               \* it is, and what it gave
    ask,       \* a read of the StateDB: the method and its arguments
    answer,    \* what the read gave: the value returned or the error raised,
               \* and the queries it made of the table
    run        \* a call of ProcessPayloads.process: its payloads, the states
               \* it has read, how far it is, and what each payload gave

vars == <<db, now, req, last, newest, pc, result, arn, started, faulted,
          anId, itsKey, roundtrip, payload, original, given, made,
          assigning, assigned, completed, yielded, derived,
          cb, cbreq, cblast, resolves, batch, scan, ask, answer, run>>

storeVars == <<db, now, req, last, newest>>
callVars == <<pc, result, arn, started, faulted>>
keyVars == <<anId, itsKey, roundtrip>>
idVars == <<payload, original>>
newVars == <<given, made>>

\* the variables of the specifications that follow SpecId
assignVars == <<assigning, assigned>>
nextVars == <<completed, yielded, derived>>
cbVars == <<cb, cbreq, cblast, resolves>>
batchVars == <<batch>>
scanVars == <<scan>>
askVars == <<ask, answer>>
runVars == <<run>>
lateVars == <<batchVars, scanVars, askVars, runVars>>
restVars == <<newVars, assignVars, nextVars, cbVars, lateVars>>

\* what each of these specifications leaves alone
oldVars == <<storeVars, callVars, keyVars, idVars>>
notNew == <<assignVars, nextVars, cbVars, lateVars>>
notAssign == <<oldVars, newVars, nextVars, cbVars, lateVars>>
notNext == <<oldVars, newVars, assignVars, cbVars, lateVars>>
notCb == <<db, req, last, newest, callVars, keyVars, idVars, newVars, assignVars, nextVars,
           lateVars>>
early == <<oldVars, newVars, assignVars, nextVars>>
notBatch == <<db, req, last, newest, callVars, keyVars, idVars, newVars, assignVars,
              nextVars, cbreq, resolves, scanVars, askVars, runVars>>
notScan == <<early, cbreq, cblast, resolves, batchVars, askVars, runVars>>
notAsk == <<req, last, newest, callVars, keyVars, idVars, newVars, assignVars, nextVars,
            cbVars, batchVars, scanVars, runVars>>
notRun == <<req, last, newest, callVars, keyVars, idVars, newVars, assignVars, nextVars,
            cbVars, batchVars, scanVars, askVars>>

\* what the callers of the StateDB leave alone, and what __call__ leaves alone
notStore == <<callVars, keyVars, idVars, restVars>>
notCall == <<keyVars, idVars, restVars>>

----------------------------------------------------------------------------
(* Bounds *)

\* the callers of Spec read the clock at most MaxTime times
MaxTime == 3

\* the callers of ProcessPayload.__call__ are 1..NumCallers
NumCallers == 2

\* a segment of a payload id has at most MaxSeg tokens
MaxSeg == 3

\* a payload has at most MaxItems features
MaxItems == 2

WF == "/workflow-"
SL == "/"

Procs == 1..NumCallers

\* the callers of Spec, which use the StateDB directly
Clients == {1, 2}

\* the payload id the callers work on: "c/workflow-w/a"
PayloadId == <<"c", WF, "w", SL, "a">>
PayloadIds == { PayloadId }

\* execution ARNs, output urls and error messages handed to the store
Args == {"v1", "v2"}

----------------------------------------------------------------------------
(* src/cirruslib/statedb.py *)

STATES == <<"QUEUED", "PROCESSING", "COMPLETED", "FAILED", "INVALID">>

StateSet == {STATES[k] : k \in 1..Len(STATES)}

\* str.split(sep): the segments between the occurrences of sep
RECURSIVE split(_, _)
split(s, sep) ==
    IF \A k \in 1..Len(s) : s[k] # sep
    THEN << s >>
    ELSE LET k == CHOOSE k \in 1..Len(s) :
                      s[k] = sep /\ \A j \in 1..(k - 1) : s[j] # sep
         IN  << SubSeq(s, 1, k - 1) >> \o split(SubSeq(s, k + 1, Len(s)), sep)

\* catid_to_key: parts[0] and parts[1] of catid.split('/workflow-');
\* parts[1] of a text without the marker raises IndexError
catid_to_key(catid) ==
    LET parts == split(catid, WF)
    IN  IF Len(parts) < 2
        THEN "IndexError"
        ELSE [input_collections |-> parts[1], id |-> parts[2]]

\* key_to_catid: f"{key['input_collections']}/workflow-{key['id']}"
key_to_catid(key) == key.input_collections \o << WF >> \o key.id

\* '/'.join(sorted(opts['collections'].keys())) of the test catalog
output_collections == << "out" >>

\* f"{state}_{now}"
StateStamp(state, ts) == << state, ts >>

\* current_state.split('_')[0]
StateOf(item) == item.current_state[1]
StampOf(item) == item.current_state[2]

\* Table.put_item: the item replaces whatever the key held
put_item(table, key, item) ==
    [k \in DOMAIN table \cup {key} |-> IF k = key THEN item ELSE table[k]]

\* Table.update_item with a SET expression: the named attributes are set on the
\* item of the key, which is created holding its key when there is none
update_item(table, key, sets) ==
    LET old == IF key \in DOMAIN table
               THEN table[key]
               ELSE [input_collections |-> key.input_collections, id |-> key.id]
        new == [a \in DOMAIN old \cup DOMAIN sets |->
                   IF a \in DOMAIN sets THEN sets[a] ELSE old[a]]
    IN  put_item(table, key, new)

\* Table.delete_item
delete_item(table, catid) ==
    LET key == catid_to_key(catid)
    IN  [k \in DOMAIN table \ {key} |-> table[k]]

create_item(table, catid, state, ts) ==
    LET key == catid_to_key(catid)
    IN  put_item(table, key,
            [input_collections |-> key.input_collections,
             id |-> key.id,
             output_collections |-> output_collections,
             current_state |-> StateStamp(state, ts),
             created_at |-> ts])

add_item(table, catid, execution, ts) ==
    LET key == catid_to_key(catid)
    IN  put_item(table, key,
            [input_collections |-> key.input_collections,
             id |-> key.id,
             output_collections |-> output_collections,
             current_state |-> StateStamp("PROCESSING", ts),
             created_at |-> ts,
             execution |-> execution])

\* add_failed_item with the state of add_item, of which it is a copy
add_failed_item_processing(table, catid, error_message, ts) ==
    LET key == catid_to_key(catid)
    IN  put_item(table, key,
            [input_collections |-> key.input_collections,
             id |-> key.id,
             output_collections |-> output_collections,
             current_state |-> StateStamp("PROCESSING", ts),
             created_at |-> ts,
             error_message |-> error_message])

add_failed_item(table, catid, error_message, ts) ==
    LET key == catid_to_key(catid)
    IN  put_item(table, key,
            [input_collections |-> key.input_collections,
             id |-> key.id,
             output_collections |-> output_collections,
             current_state |-> StateStamp("FAILED", ts),
             created_at |-> ts,
             error_message |-> error_message])

set_processing(table, catid, execution, ts) ==
    update_item(table, catid_to_key(catid),
        [current_state |-> StateStamp("PROCESSING", ts), execution |-> execution])

\* set_completed with the state misspelt
set_completed_misspelt(table, catid, urls, ts) ==
    update_item(table, catid_to_key(catid),
        [current_state |-> StateStamp("COMPLETE", ts), output_urls |-> urls])

set_completed(table, catid, urls, ts) ==
    update_item(table, catid_to_key(catid),
        [current_state |-> StateStamp("COMPLETED", ts), output_urls |-> urls])

\* set_failed that writes only over an older timestamp
set_failed_if_newer(table, catid, msg, ts) ==
    LET key == catid_to_key(catid)
    IN  IF key \in DOMAIN table /\ table[key].current_state[2] > ts
        THEN table
        ELSE update_item(table, key,
                [current_state |-> StateStamp("FAILED", ts), error_message |-> msg])

set_failed(table, catid, msg, ts) ==
    update_item(table, catid_to_key(catid),
        [current_state |-> StateStamp("FAILED", ts), error_message |-> msg])

\* set_invalid with the state of set_failed, of which it is a copy
set_invalid_as_failed(table, catid, msg, ts) ==
    update_item(table, catid_to_key(catid),
        [current_state |-> StateStamp("FAILED", ts), error_message |-> msg])

set_invalid(table, catid, msg, ts) ==
    update_item(table, catid_to_key(catid),
        [current_state |-> StateStamp("INVALID", ts), error_message |-> msg])

\* get_state: the state of the item, "" when there is none
get_state(table, catid) ==
    IF catid_to_key(catid) \in DOMAIN table
    THEN StateOf(table[catid_to_key(catid)])
    ELSE ""

----------------------------------------------------------------------------
(* cirrus.lib.statedb: claim_processing and set_aborted, which                *)
(* src/src/cirrus/lib/process_payload.py and src/tests/test_statedb.py call. *)

\* a claim with no condition
claim_unconditional(table, catid) == TRUE

\* the condition of the claim: no item of the key is in PROCESSING
claim_condition(table, catid) == get_state(table, catid) # "PROCESSING"

\* claim_processing: a conditional update to PROCESSING with a fresh timestamp;
\* created_at is kept when the item has one
claim_processing(table, catid, ts) ==
    LET key == catid_to_key(catid)
        created == IF key \in DOMAIN table /\ "created_at" \in DOMAIN table[key]
                   THEN table[key].created_at
                   ELSE ts
    IN  update_item(table, key,
            [current_state |-> StateStamp("PROCESSING", ts), created_at |-> created])

set_aborted(table, catid, ts) ==
    update_item(table, catid_to_key(catid),
        [current_state |-> StateStamp("ABORTED", ts)])

----------------------------------------------------------------------------
(* The table and its callers.  A caller builds a request, reading the clock *)
(* for the timestamp it embeds (datetime.now() in the caller's process),    *)
(* and the table applies the requests one at a time in the order they       *)
(* arrive.                                                                  *)

Idle == [op |-> "idle"]

NoRequest == [op |-> "none", catid |-> << >>, ts |-> 0, arg |-> "none",
              outcome |-> "none"]

Request(op, catid, ts, arg) == [op |-> op, catid |-> catid, ts |-> ts, arg |-> arg]

\* the set_* operations: unconditional updates that embed a timestamp
Transitions == {"set_processing", "set_completed", "set_failed", "set_invalid",
                "set_aborted"}

\* the table after request r
Effect(table, r) ==
    CASE r.op = "create_item" -> create_item(table, r.catid, r.arg, r.ts)
      [] r.op = "add_item" -> add_item(table, r.catid, r.arg, r.ts)
      [] r.op = "add_failed_item" -> add_failed_item(table, r.catid, r.arg, r.ts)
      [] r.op = "delete_item" -> delete_item(table, r.catid)
      [] r.op = "set_processing" -> set_processing(table, r.catid, r.arg, r.ts)
      [] r.op = "set_completed" -> set_completed(table, r.catid, r.arg, r.ts)
      [] r.op = "set_failed" -> set_failed(table, r.catid, r.arg, r.ts)
      [] r.op = "set_invalid" -> set_invalid(table, r.catid, r.arg, r.ts)
      [] r.op = "set_aborted" -> set_aborted(table, r.catid, r.ts)
      [] r.op = "claim_processing" ->
            IF claim_condition(table, r.catid)
            THEN claim_processing(table, r.catid, r.ts)
            ELSE table

\* what the caller gets back
Outcome(table, r) ==
    IF r.op = "claim_processing" /\ ~claim_condition(table, r.catid)
    THEN "ConditionalCheckFailedException"
    ELSE "ok"

\* caller p builds a request; but for delete_item, which embeds no timestamp,
\* it reads the clock
Build(p, op, catid, arg) ==
    /\ req[p] = Idle
    /\ now' = IF op = "delete_item" THEN now ELSE now + 1
    /\ req' = [req EXCEPT ![p] =
                  Request(op, catid, IF op = "delete_item" THEN 0 ELSE now + 1, arg)]
    /\ UNCHANGED <<db, last, newest>>

\* the table applies the request of caller p
Apply(p) ==
    /\ req[p] # Idle
    /\ LET r == req[p]
           k == catid_to_key(r.catid)
       IN  /\ db' = Effect(db, r)
           /\ last' = [op |-> r.op, catid |-> r.catid, ts |-> r.ts, arg |-> r.arg,
                       outcome |-> Outcome(db, r)]
           /\ newest' = IF r.op \in Transitions /\ r.ts > newest[k][2]
                        THEN [newest EXCEPT ![k] = Effect(db, r)[k].current_state]
                        ELSE newest
    /\ req' = [req EXCEPT ![p] = Idle]
    /\ UNCHANGED now

Keys == {catid_to_key(c) : c \in PayloadIds}

StoreInit ==
    /\ db = << >>
    /\ now = 0
    /\ req = [p \in Procs |-> Idle]
    /\ last = NoRequest
    /\ newest = [k \in Keys |-> StateStamp("", 0)]

\* no key is taken yet
NoKey == [input_collections |-> << >>]

KeyIdle ==
    /\ anId = << >>
    /\ itsKey = NoKey
    /\ roundtrip = << >>

IdIdle ==
    /\ payload = [features |-> << >>]
    /\ original = [features |-> << >>]

\* no payload is constructed yet
NotMade == [outcome |-> "none"]

NewIdle ==
    /\ given = [update |-> FALSE]
    /\ made = NotMade

\* assign_collections is not run yet
NotAssigned == << [id |-> "none"] >>

AssignIdle ==
    /\ assigning = [features |-> << >>, upload_options |-> << >>]
    /\ assigned = NotAssigned

NextIdle ==
    /\ completed = [id |-> << >>]
    /\ yielded = << >>
    /\ derived = << >>

\* the callback tokens
Tokens == {"t1", "t2"}

NoCbRequest == [op |-> "none", token |-> "none", n |-> 0, outcome |-> "none"]

CbIdle ==
    /\ cb = << >>
    /\ cbreq = [p \in Clients |-> Idle]
    /\ cblast = NoCbRequest
    /\ resolves = [t \in Tokens |-> << >>]

\* no batch is called yet
NoBatch == [op |-> "none"]

\* no scan is called yet
NoScan == [op |-> "none"]

\* no read is asked yet
NoAsk == [op |-> "none"]

\* process is not called yet
NoRun == [op |-> "none"]

LateIdle ==
    /\ batch = NoBatch
    /\ scan = NoScan
    /\ ask = NoAsk
    /\ answer = NoAsk
    /\ run = NoRun

RestIdle == NewIdle /\ AssignIdle /\ NextIdle /\ CbIdle /\ LateIdle

CallIdle ==
    /\ pc = [p \in Procs |-> "idle"]
    /\ result = [p \in Procs |-> "none"]
    /\ arn = [p \in Procs |-> 0]
    /\ started = 0
    /\ faulted = FALSE

----------------------------------------------------------------------------------------------------------------------------------------
(* Spec: the clients use the operations of the StateDB in any order. *)

\* A client calls an operation of the StateDB: it builds the request, which the
\* table applies later (Send).

CreateItem ==
    \E p \in Clients, c \in PayloadIds, s \in StateSet :
        /\ now < MaxTime
        /\ Build(p, "create_item", c, s)
        /\ UNCHANGED notStore

AddItem ==
    \E p \in Clients, c \in PayloadIds, e \in Args :
        /\ now < MaxTime
        /\ Build(p, "add_item", c, e)
        /\ UNCHANGED notStore

AddFailedItem ==
    \E p \in Clients, c \in PayloadIds, m \in Args :
        /\ now < MaxTime
        /\ Build(p, "add_failed_item", c, m)
        /\ UNCHANGED notStore

DeleteItem ==
    \E p \in Clients, c \in PayloadIds :
        /\ now < MaxTime
        /\ Build(p, "delete_item", c, "none")
        /\ UNCHANGED notStore

SetProcessing ==
    \E p \in Clients, c \in PayloadIds, e \in Args :
        /\ now < MaxTime
        /\ Build(p, "set_processing", c, e)
        /\ UNCHANGED notStore

SetCompleted ==
    \E p \in Clients, c \in PayloadIds, u \in Args :
        /\ now < MaxTime
        /\ Build(p, "set_completed", c, << u >>)
        /\ UNCHANGED notStore

SetFailed ==
    \E p \in Clients, c \in PayloadIds, m \in Args :
        /\ now < MaxTime
        /\ Build(p, "set_failed", c, m)
        /\ UNCHANGED notStore

SetInvalid ==
    \E p \in Clients, c \in PayloadIds, m \in Args :
        /\ now < MaxTime
        /\ Build(p, "set_invalid", c, m)
        /\ UNCHANGED notStore

SetAborted ==
    \E p \in Clients, c \in PayloadIds :
        /\ now < MaxTime
        /\ Build(p, "set_aborted", c, "none")
        /\ UNCHANGED notStore

ClaimProcessing ==
    \E p \in Clients, c \in PayloadIds :
        /\ now < MaxTime
        /\ Build(p, "claim_processing", c, "none")
        /\ UNCHANGED notStore

\* the table applies the request of a client, which is then free to call again
Send ==
    \E p \in Clients :
        /\ Apply(p)
        /\ UNCHANGED notStore

Init == StoreInit /\ CallIdle /\ KeyIdle /\ IdIdle /\ RestIdle

Next ==
    \/ CreateItem
    \/ AddItem
    \/ AddFailedItem
    \/ DeleteItem
    \/ SetProcessing
    \/ SetCompleted
    \/ SetFailed
    \/ SetInvalid
    \/ SetAborted
    \/ ClaimProcessing
    \/ Send

Spec == Init /\ [][Next]_vars

----------------------------------------------------------------------------
(* SpecCall: every caller runs ProcessPayload.__call__ once, all on the same *)
(* payload id, whose record is absent at the start.                          *)
(* src/src/cirrus/lib/process_payload.py, lines 401-435.                     *)

\* a call that goes on to start_execution whatever the claim gave
AfterClaim_started(outcome) == [pc |-> "start", result |-> "none"]

\* __call__ without the handler of ConditionalCheckFailedException
AfterClaim_unhandled(outcome) ==
    IF outcome = "ConditionalCheckFailedException"
    THEN [pc |-> "except", result |-> "none"]
    ELSE [pc |-> "start", result |-> "none"]

\* where __call__ goes on after claim_processing: past the claim, or into the
\* handler of ConditionalCheckFailedException, which returns None
AfterClaim(outcome) ==
    IF outcome = "ConditionalCheckFailedException"
    THEN [pc |-> "done", result |-> "None"]
    ELSE [pc |-> "start", result |-> "none"]

\* the message of the generic handler
FailedMsg == "failed starting workflow"

\* a generic handler that returns None when set_failed has raised
AfterExcept_swallowed(outcome) ==
    IF outcome = "ok"
    THEN [pc |-> "done", result |-> "raised"]
    ELSE [pc |-> "done", result |-> "None"]

\* how the generic handler ends: "raise" after set_failed has returned, and
\* the exception of set_failed when it has raised
AfterExcept(outcome) == [pc |-> "done", result |-> "raised"]

\* the call begins
Call(p) ==
    /\ pc[p] = "idle"
    /\ pc' = [pc EXCEPT ![p] = "upload"]
    /\ UNCHANGED <<storeVars, result, arn, started, faulted, notCall>>

\* s3().upload_json(self, url) returns
UploadOk(p) ==
    /\ pc[p] = "upload"
    /\ pc' = [pc EXCEPT ![p] = "claim"]
    /\ UNCHANGED <<storeVars, result, arn, started, faulted, notCall>>

\* s3().upload_json(self, url) raises
UploadRaises(p) ==
    /\ pc[p] = "upload"
    /\ pc' = [pc EXCEPT ![p] = "except"]
    /\ faulted' = TRUE
    /\ UNCHANGED <<storeVars, result, arn, started, notCall>>

\* statedb.claim_processing(self['id']): the request is built
Claim(p) ==
    /\ pc[p] = "claim"
    /\ Build(p, "claim_processing", PayloadId, "none")
    /\ pc' = [pc EXCEPT ![p] = "claiming"]
    /\ UNCHANGED <<result, arn, started, faulted, notCall>>

\* the table answers the claim
ClaimReturns(p) ==
    /\ pc[p] = "claiming"
    /\ Apply(p)
    /\ pc' = [pc EXCEPT ![p] = AfterClaim(last'.outcome).pc]
    /\ result' = [result EXCEPT ![p] = AfterClaim(last'.outcome).result]
    /\ UNCHANGED <<arn, started, faulted, notCall>>

\* stepfunctions.start_execution returns an executionArn
StartOk(p) ==
    /\ pc[p] = "start"
    /\ started' = started + 1
    /\ arn' = [arn EXCEPT ![p] = started + 1]
    /\ pc' = [pc EXCEPT ![p] = "record"]
    /\ UNCHANGED <<storeVars, result, faulted, notCall>>

\* stepfunctions.start_execution raises
StartRaises(p) ==
    /\ pc[p] = "start"
    /\ pc' = [pc EXCEPT ![p] = "except"]
    /\ faulted' = TRUE
    /\ UNCHANGED <<storeVars, result, arn, started, notCall>>

\* statedb.set_processing(self['id'], exe_response['executionArn'])
Record(p) ==
    /\ pc[p] = "record"
    /\ Build(p, "set_processing", PayloadId, arn[p])
    /\ pc' = [pc EXCEPT ![p] = "recording"]
    /\ UNCHANGED <<result, arn, started, faulted, notCall>>

\* the table answers; return self['id']
RecordReturns(p) ==
    /\ pc[p] = "recording"
    /\ Apply(p)
    /\ pc' = [pc EXCEPT ![p] = "done"]
    /\ result' = [result EXCEPT ![p] = "id"]
    /\ UNCHANGED <<arn, started, faulted, notCall>>

\* except Exception: statedb.set_failed(self['id'], msg)
Except(p) ==
    /\ pc[p] = "except"
    /\ Build(p, "set_failed", PayloadId, FailedMsg)
    /\ pc' = [pc EXCEPT ![p] = "failing"]
    /\ UNCHANGED <<result, arn, started, faulted, notCall>>

\* the table answers; raise
ExceptRaises(p) ==
    /\ pc[p] = "failing"
    /\ Apply(p)
    /\ pc' = [pc EXCEPT ![p] = AfterExcept(last'.outcome).pc]
    /\ result' = [result EXCEPT ![p] = AfterExcept(last'.outcome).result]
    /\ UNCHANGED <<arn, started, faulted, notCall>>

\* statedb.set_failed raises: the table has written nothing
ExceptFails(p) ==
    /\ pc[p] = "failing"
    /\ req[p] # Idle
    /\ last' = [op |-> req[p].op, catid |-> req[p].catid, ts |-> req[p].ts,
                arg |-> req[p].arg, outcome |-> "ClientError"]
    /\ req' = [req EXCEPT ![p] = Idle]
    /\ pc' = [pc EXCEPT ![p] = AfterExcept(last'.outcome).pc]
    /\ result' = [result EXCEPT ![p] = AfterExcept(last'.outcome).result]
    /\ UNCHANGED <<db, now, newest, arn, started, faulted, notCall>>

NextCall ==
    \/ \E p \in Procs : Call(p)
    \/ \E p \in Procs : UploadOk(p)
    \/ \E p \in Procs : UploadRaises(p)
    \/ \E p \in Procs : Claim(p)
    \/ \E p \in Procs : ClaimReturns(p)
    \/ \E p \in Procs : StartOk(p)
    \/ \E p \in Procs : StartRaises(p)
    \/ \E p \in Procs : Record(p)
    \/ \E p \in Procs : RecordReturns(p)
    \/ \E p \in Procs : Except(p)
    \/ \E p \in Procs : ExceptRaises(p)
    \/ \E p \in Procs : ExceptFails(p)

SpecCall == Init /\ [][NextCall]_vars

----------------------------------------------------------------------------------------------------------------------------------------
(* SpecKey: the key of a payload id, and the payload id of that key. *)
(* src/cirruslib/statedb.py, lines 386-413.                          *)

\* the texts of 1..n tokens
Texts(tokens, n) == UNION {[1..k -> tokens] : k \in 1..n}

\* the segments of an id: names of collections or of items, in which the text
\* "/workflow-" may occur, joined by "/"
Segments ==
    {t \in Texts({"a", SL, WF}, MaxSeg) :
        /\ t[1] # SL
        /\ t[Len(t)] # SL
        /\ \A k \in 1..(Len(t) - 1) : ~(t[k] = SL /\ t[k + 1] = SL)}

\* the ids "<collections>/workflow-w/<item-ids>"
DerivedIds == {c \o << WF, "w", SL >> \o i : c \in Segments, i \in Segments}

KeyInit ==
    /\ anId \in DerivedIds
    /\ itsKey = NoKey
    /\ roundtrip = << >>

\* key = StateDB.catid_to_key(catid)
ToKey ==
    /\ itsKey = NoKey
    /\ itsKey' = catid_to_key(anId)
    /\ UNCHANGED <<anId, roundtrip, storeVars, callVars, idVars, restVars>>

\* StateDB.key_to_catid(key)
ToCatid ==
    /\ itsKey # NoKey
    /\ roundtrip = << >>
    /\ roundtrip' = key_to_catid(itsKey)
    /\ UNCHANGED <<anId, itsKey, storeVars, callVars, idVars, restVars>>

NextKey == ToKey \/ ToCatid

InitKey == StoreInit /\ CallIdle /\ IdIdle /\ KeyInit /\ RestIdle

SpecKey == InitKey /\ [][NextKey]_vars

----------------------------------------------------------------------------
(* SpecId: the id that update() derives for a payload that has none. *)
(* src/src/cirrus/lib/process_payload.py, lines 157-169.             *)

\* the characters of the names, in the order of their code points
Alphabet == << "a", "b", "x", "y" >>

Rank(ch) == CHOOSE k \in 1..Len(Alphabet) : Alphabet[k] = ch

\* s < t for two str
RECURSIVE Less(_, _)
Less(s, t) ==
    IF t = << >> THEN FALSE
    ELSE IF s = << >> THEN TRUE
    ELSE IF Head(s) # Head(t) THEN Rank(Head(s)) < Rank(Head(t))
    ELSE Less(Tail(s), Tail(t))

\* sorted(l)
RECURSIVE sorted(_)
sorted(l) ==
    IF l = << >> THEN << >>
    ELSE LET rest == sorted(Tail(l))
             n == Cardinality({k \in 1..Len(rest) : Less(rest[k], Head(l))})
         IN  SubSeq(rest, 1, n) \o << Head(l) >> \o SubSeq(rest, n + 1, Len(rest))

\* set(l)
set(l) == {l[k] : k \in 1..Len(l)}

\* list(S): the elements of a set, in the order the set happens to give them
RECURSIVE list(_)
list(S) ==
    IF S = {} THEN << >>
    ELSE LET x == CHOOSE x \in S : TRUE
         IN  << x >> \o list(S \ {x})

\* '/'.join(iterable)
RECURSIVE join(_)
join(l) ==
    IF l = << >> THEN << >>
    ELSE IF Len(l) = 1 THEN l[1]
    ELSE l[1] \o << SL >> \o join(Tail(l))

\* the elements that iterating over a str gives: its characters
chars(text) == [k \in 1..Len(text) |-> << text[k] >>]

\* [f(x) for x in l if p(x)], for the two comprehensions of update()
collections_of(features) ==
    LET with == {k \in 1..Len(features) : "collection" \in DOMAIN features[k]}
        pick[k \in 0..Len(features)] ==
            IF k = 0 THEN << >>
            ELSE IF k \in with THEN Append(pick[k - 1], features[k].collection)
            ELSE pick[k - 1]
    IN  pick[Len(features)]

ids_of(features) == [k \in 1..Len(features) |-> features[k].id]

none == << "n", "o", "n", "e" >>

\* collections_str: the override of the process, or the collections of the
\* items, sorted and without duplicates, joined by "/"; with no collection,
\* input_collections is the str 'none', which join takes character by character
collections_str(p) ==
    IF "collections" \in DOMAIN p.process
    THEN p.process.collections
    ELSE LET cols == sorted(list(set(collections_of(p.features))))
             input_collections == IF Len(cols) # 0 THEN cols ELSE chars(none)
         IN  join(input_collections)

\* items_str without the sort
items_str_unsorted(p) == join(ids_of(p.features))

\* items_str: the ids of the items, sorted, joined by "/"
items_str(p) == join(sorted(ids_of(p.features)))

\* update(): a payload without an id gets the derived id
update(p) ==
    IF "id" \in DOMAIN p
    THEN p
    ELSE [a \in DOMAIN p \cup {"id"} |->
            IF a = "id"
            THEN collections_str(p) \o << WF >> \o p.process.workflow
                     \o << SL >> \o items_str(p)
            ELSE p[a]]

ItemIds == { << "a" >>, << "b" >> }
Collections == { << "x" >>, << "y" >> }

Items == [id : ItemIds] \cup [id : ItemIds, collection : Collections]

FeatureLists == UNION {[1..k -> Items] : k \in 1..MaxItems}

Processes == { [workflow |-> << "w" >>],
               [workflow |-> << "w" >>, collections |-> << "y", SL, "x" >>] }

IdInit ==
    /\ payload \in [features : FeatureLists, process : Processes]
    /\ original = [features |-> << >>]

\* ProcessPayload(..., update=True)
Update ==
    /\ "id" \notin DOMAIN payload
    /\ payload' = update(payload)
    /\ UNCHANGED <<original, storeVars, callVars, keyVars, restVars>>

\* the same payload arrives with its features in another order
Reorder ==
    /\ "id" \in DOMAIN payload
    /\ original.features = << >>
    /\ original' = payload
    /\ \E f \in FeatureLists :
          /\ Len(f) = Len(payload.features)
          /\ \E perm \in [1..Len(f) -> 1..Len(f)] :
                /\ \A i, j \in 1..Len(f) : i # j => perm[i] # perm[j]
                /\ f = [k \in 1..Len(f) |-> payload.features[perm[k]]]
          /\ payload' = [features |-> f, process |-> payload.process]
    /\ UNCHANGED <<storeVars, callVars, keyVars, restVars>>

NextId == Update \/ Reorder

InitId == StoreInit /\ CallIdle /\ KeyIdle /\ IdInit /\ RestIdle

SpecId == InitId /\ [][NextId]_vars

----------------------------------------------------------------------------
(* SpecNew: ProcessPayload(raw, update=...), and __call__ on the payload it *)
(* gives.  src/src/cirrus/lib/process_payload.py, lines 38-100, 172-184.    *)
(*                                                                          *)
(* A value of the 'process' field, and an element of a list of stages, is   *)
(* tagged with its Python type: a dict (a stage) or a list.                 *)

Dict(stage) == [kind |-> "dict", value |-> stage]
List(l) == [kind |-> "list", value |-> l]

\* d[a] = v and d.pop(a) on a dict
With(d, a, v) == [x \in DOMAIN d \cup {a} |-> IF x = a THEN v ELSE d[x]]
Without(d, a) == [x \in DOMAIN d \ {a} |-> d[x]]

\* a constructor that swallows the error and gives a payload all the same
Raise_swallowed(err) == [outcome |-> "ok", payload |-> [id |-> PayloadId]]

\* the statement raises err: no payload is constructed
Raise(err) == [outcome |-> err]

\* the regex that matches every text
ANY == ".*"

\* re.compile(regex).match(text), for the regex '.*' and for a regex without
\* metacharacters: the regex matches at the start of the text
match(regex, text) ==
    \/ regex = << ANY >>
    \/ Len(regex) <= Len(text) /\ SubSeq(text, 1, Len(regex)) = regex

\* the inner loop with a break at the first pair that matches
RECURSIVE assign_first_match(_, _)
assign_first_match(item, collections) ==
    IF collections = << >> THEN item
    ELSE IF match(Head(collections).regex, item.id)
    THEN With(item, "collection", Head(collections).name)
    ELSE assign_first_match(item, Tail(collections))

\* the inner loop of assign_collections on one item: every pair of the mapping,
\* in the order of the mapping, sets the collection of the item it matches
RECURSIVE assign(_, _)
assign(item, collections) ==
    IF collections = << >> THEN item
    ELSE LET col == Head(collections)
         IN  assign(IF match(col.regex, item.id)
                    THEN With(item, "collection", col.name)
                    ELSE item,
                    Tail(collections))

\* assign_collections: the features after the loop over the items
assign_collections(features, process) ==
    LET collections == IF "collections" \in DOMAIN process.upload_options
                       THEN process.upload_options.collections
                       ELSE << >>
    IN  [k \in 1..Len(features) |-> assign(features[k], collections)]

\* an id that is not looked at
has_marker_unchecked(id) == TRUE

\* 'workflow-' in id
has_marker(id) == \E k \in 1..Len(id) : id[k] = WF

\* self.process: the first stage of a list, or the only stage
first_stage(process) ==
    IF process.kind = "list" THEN process.value[1].value ELSE process.value

\* self['process'] once self.process, which is a reference into it, has changed
with_first_stage(process, stage) ==
    IF process.kind = "list"
    THEN List([process.value EXCEPT ![1] = Dict(stage)])
    ELSE Dict(stage)

\* self.update() in __init__: a payload without an id gets the derived one
update_self(self, process) ==
    LET p == [a \in (DOMAIN self \cap {"id", "features"}) \cup {"process"} |->
                 IF a = "process" THEN process ELSE self[a]]
    IN  With(self, "id", update(p).id)

\* item['links'] = [] for an item without links
with_links(features) ==
    [k \in 1..Len(features) |->
        IF "links" \in DOMAIN features[k]
        THEN features[k]
        ELSE With(features[k], "links", << >>)]

\* __init__ from line 62 on: the aliases, the assertions, the links and
\* the collections of the items
validate(self, process) ==
    LET p1 == IF "output_options" \in DOMAIN process
                    /\ "upload_options" \notin DOMAIN process
              THEN With(process, "upload_options", process.output_options)
              ELSE process
        p2 == IF "functions" \in DOMAIN p1
              THEN Without(With(p1, "tasks", p1.functions), "functions")
              ELSE p1
    IN  IF "upload_options" \notin DOMAIN p1 THEN Raise("AssertionError")
        ELSE IF "workflow" \notin DOMAIN p1 THEN Raise("AssertionError")
        ELSE IF "tasks" \notin DOMAIN p2 THEN Raise("AssertionError")
        ELSE IF "id" \notin DOMAIN self THEN Raise("KeyError")
        ELSE IF ~has_marker(self.id) THEN Raise("AssertionError")
        ELSE IF "features" \notin DOMAIN self THEN Raise("KeyError")
        ELSE IF Len(self.features) = 0 THEN Raise("AssertionError")
        ELSE [outcome |-> "ok",
              payload |->
                  [a \in DOMAIN self |->
                      IF a = "process" THEN with_first_stage(self.process, p2)
                      ELSE IF a = "features"
                      THEN assign_collections(with_links(self.features), p2)
                      ELSE self[a]],
              process |-> p2,
              tasks |-> p2.tasks]

\* ProcessPayload(raw, update=upd)
construct(raw, upd) ==
    IF "type" \notin DOMAIN raw THEN Raise("KeyError")
    ELSE IF raw.type # "FeatureCollection" THEN Raise("AssertionError")
    ELSE IF "process" \notin DOMAIN raw THEN Raise("AssertionError")
    ELSE IF raw.process.kind = "list" /\ raw.process.value = << >>
    THEN Raise("IndexError")
    ELSE LET process == first_stage(raw.process)
         IN  IF ~upd THEN validate(raw, process)
             ELSE IF "features" \notin DOMAIN raw THEN Raise("KeyError")
             ELSE IF "id" \notin DOMAIN raw /\ "workflow" \notin DOMAIN process
             THEN Raise("KeyError")
             ELSE validate(update_self(raw, process), process)

\* the raw payloads: every field is there or not
None == << >>

UploadOptions == [collections |-> << >>]
OutputOptions == [collections |-> << [name |-> << "c" >>, regex |-> << ANY >>] >>]

Stages ==
    { w @@ u @@ o @@ t @@ f :
        w \in {None, [workflow |-> << "w" >>]},
        u \in {None, [upload_options |-> UploadOptions]},
        o \in {None, [output_options |-> OutputOptions]},
        t \in {None, [tasks |-> "tasks"]},
        f \in {None, [functions |-> "functions"]} }

RawProcesses ==
    {None, [process |-> List(<< >>)]}
        \cup {[process |-> Dict(st)] : st \in Stages}
        \cup {[process |-> List(<< Dict(st) >>)] : st \in Stages}

Raws ==
    { t @@ pr @@ f @@ i :
        t \in {None, [type |-> "FeatureCollection"], [type |-> "Feature"]},
        pr \in RawProcesses,
        f \in {None, [features |-> << >>],
               [features |-> << [id |-> << "a" >>, collection |-> << "c" >>] >>]},
        i \in {None, [id |-> PayloadId], [id |-> << "c", SL, "a" >>]} }

NewInit ==
    /\ given \in [raw : Raws, update : BOOLEAN]
    /\ made = NotMade

\* the payload is constructed, or the constructor raises
New ==
    /\ made = NotMade
    /\ made' = construct(given.raw, given.update)
    /\ UNCHANGED <<given, oldVars, notNew>>

\* a caller runs __call__ on the payload that was constructed
Start ==
    /\ made.outcome = "ok"
    /\ made.payload.id = PayloadId
    /\ UNCHANGED notNew
    /\ \/ Call(1) \/ UploadOk(1) \/ UploadRaises(1) \/ Claim(1) \/ ClaimReturns(1)
       \/ StartOk(1) \/ StartRaises(1) \/ Record(1) \/ RecordReturns(1)
       \/ Except(1) \/ ExceptRaises(1)

NextNew == New \/ Start

InitNew ==
    StoreInit /\ CallIdle /\ KeyIdle /\ IdIdle /\ NewInit /\ AssignIdle /\ NextIdle /\ CbIdle
        /\ LateIdle

SpecNew == InitNew /\ [][NextNew]_vars

----------------------------------------------------------------------------
(* SpecAssign: assign_collections on the features of a payload.            *)
(* src/src/cirrus/lib/process_payload.py, lines 172-184.                   *)

\* a mapping has at most MaxPairs pairs (collection, regex)
MaxPairs == 2

ItemNames == { << "a" >>, << "b" >>, << "a", "b" >> }
Regexes == { << ANY >>, << "a" >>, << "b" >>, << "a", "b" >> }
CollectionNames == { << "x" >>, << "y" >>, << "z" >> }

\* a dict of collections: its pairs in the order of insertion, its keys distinct
Mappings ==
    {m \in UNION {[1..n -> [name : CollectionNames, regex : Regexes]] : n \in 0..MaxPairs} :
        \A i, j \in 1..Len(m) : i # j => m[i].name # m[j].name}

AssignItems == [id : ItemNames] \cup [id : ItemNames, collection : {<< "x" >>}]

AssignInit ==
    /\ assigning \in
          [features : UNION {[1..n -> AssignItems] : n \in 1..MaxItems},
           upload_options : {None} \cup {[collections |-> m] : m \in Mappings}]
    /\ assigned = NotAssigned

\* payload.assign_collections()
Assign ==
    /\ assigned = NotAssigned
    /\ assigned' = assign_collections(assigning.features,
                       [upload_options |-> assigning.upload_options])
    /\ UNCHANGED <<assigning, notAssign>>

NextAssign == Assign

InitAssign ==
    StoreInit /\ CallIdle /\ KeyIdle /\ IdIdle /\ NewIdle /\ AssignInit /\ NextIdle /\ CbIdle
        /\ LateIdle

SpecAssign == InitAssign /\ [][NextAssign]_vars

----------------------------------------------------------------------------
(* SpecNext: next_payloads on the payload of a completed stage, and the     *)
(* construction of the successors with update=True, which derives their ids.*)
(* src/src/cirrus/lib/process_payload.py, lines 135-155.                    *)

\* a plan has at most MaxStages stages, a fork at most MaxBranches branches,
\* and next_payloads is run at most MaxRuns times on a payload
MaxStages == 3
MaxBranches == 2
MaxRuns == 2

\* whether an item is a match of the filter $.features[?(...)], for a filter
\* that compares one field of the item with a value
satisfies(item, filter) ==
    /\ filter.field \in DOMAIN item
    /\ item[filter.field] = filter.value

\* a filter that every item passes
chain_filter_off(features, filter) == features

\* [match.value for match in jsonfilter.find(new)]: the matches, in the order
\* of the features
chain_filter(features, filter) ==
    SelectSeq(features, LAMBDA item : satisfies(item, filter))

\* a successor that keeps the id of the completed payload
successor_with_id(self, process) ==
    LET new == With(self, "process",
                   List([Tail(self.process.value) EXCEPT ![1] = process]))
    IN  IF "chain_filter" \in DOMAIN process.value
        THEN With(new, "features", chain_filter(new.features, process.value.chain_filter))
        ELSE new

\* the body of the loop of next_payloads: the successor for the stage process,
\* made of a deep copy of the payload
successor(self, process) ==
    LET copy == self
        noid == Without(copy, "id")
        popped == Tail(noid.process.value)
        new == With(noid, "process", List([popped EXCEPT ![1] = process]))
    IN  IF "chain_filter" \in DOMAIN process.value
        THEN With(new, "features", chain_filter(new.features, process.value.chain_filter))
        ELSE new

\* next_processes: the stage in slot 1, or the stages of the list in slot 1
next_processes(self) ==
    IF self.process.value[2].kind = "dict"
    THEN << self.process.value[2] >>
    ELSE self.process.value[2].value

\* next_payloads that stops at an empty plan only, and yields the payload for
\* the stage in slot 0
next_payloads_of_one(self) ==
    IF self.process.kind = "dict" \/ Len(self.process.value) < 1
    THEN << >>
    ELSE << Without(self, "id") >>

\* list(self.next_payloads()): what the generator yields
next_payloads(self) ==
    IF self.process.kind = "dict" \/ Len(self.process.value) <= 1
    THEN << >>
    ELSE [k \in 1..Len(next_processes(self)) |-> successor(self, next_processes(self)[k])]

\* next_payloads at work on the payload itself, with no copy
after_next_payloads_in_place(self) ==
    IF self.process.kind = "dict" \/ Len(self.process.value) <= 1
    THEN self
    ELSE With(Without(self, "id"), "process", List(Tail(self.process.value)))

\* the payload after next_payloads: every change was made to a deep copy
after_next_payloads(self) == self

\* the stages: with a workflow, upload_options and tasks, with or without a
\* chain filter
Workflows == { << "w" >>, << "v" >> }
Filters == { [field |-> "id", value |-> << "a" >>],
             [field |-> "collection", value |-> << "x" >>] }

Stage(w) == [workflow |-> w, upload_options |-> UploadOptions, tasks |-> "tasks"]

BranchStages ==
    {Dict(Stage(w)) : w \in Workflows}
        \cup {Dict(Stage(w) @@ [chain_filter |-> f]) : w \in Workflows, f \in Filters}

\* what slot 1 of a plan holds: a stage or a list of stages
Slots ==
    BranchStages \cup {List(l) : l \in UNION {[1..n -> BranchStages] : n \in 0..MaxBranches}}

\* the plans: a stage, or a list of stages whose slot 1 is any of Slots
Plans ==
    {Dict(Stage(<< "w" >>)), List(<< >>), List(<< Dict(Stage(<< "w" >>)) >>)}
        \cup {List(<< Dict(Stage(<< "w" >>)), s >>
                    \o [k \in 1..n |-> Dict(Stage(<< "v" >>))]) :
                 s \in Slots, n \in 0..(MaxStages - 2)}

NextItems == { [id |-> << "a" >>, collection |-> << "x" >>, links |-> << >>],
               [id |-> << "b" >>, collection |-> << "y" >>, links |-> << >>],
               [id |-> << "b" >>, links |-> << >>] }

NextInit ==
    /\ completed \in
          [type : {"FeatureCollection"},
           id : {PayloadId},
           features : UNION {[1..n -> NextItems] : n \in 1..MaxItems},
           process : Plans]
    /\ yielded = << >>
    /\ derived = << >>

\* list(payload.next_payloads())
NextPayloads ==
    /\ Len(yielded) < MaxRuns
    /\ Len(derived) = Len(yielded)
    /\ yielded' = Append(yielded, next_payloads(completed))
    /\ completed' = after_next_payloads(completed)
    /\ UNCHANGED <<derived, notNext>>

\* each successor of the last run arrives as an event:
\* ProcessPayload.from_event(successor, update=True)
FromEvent ==
    /\ Len(derived) < Len(yielded)
    /\ LET ss == yielded[Len(yielded)]
       IN  derived' = Append(derived, [k \in 1..Len(ss) |-> construct(ss[k], TRUE)])
    /\ UNCHANGED <<completed, yielded, notNext>>

NextNext == NextPayloads \/ FromEvent

InitNext ==
    StoreInit /\ CallIdle /\ KeyIdle /\ IdIdle /\ NewIdle /\ AssignIdle /\ NextInit /\ CbIdle
        /\ LateIdle

SpecNext == InitNext /\ [][NextNext]_vars

----------------------------------------------------------------------------
(* SpecCb: the callback table and the callers of the CallbackDB.  A caller  *)
(* builds a request, reading the clock for the expiration time it embeds,   *)
(* and the table applies the requests one at a time.                        *)
(* src/src/cirrus/lib/callbackdb.py, lines 61-97 and 181-212.               *)

\* the callers of the CallbackDB make at most MaxCbCalls calls
MaxCbCalls == 3

\* TTL_ON_FINAL_STATE, in days
TTL_ON_FINAL_STATE == 60

\* FINAL_STATES, of cirrus.lib.statedb
FINAL_STATES == {"COMPLETED", "FAILED", "INVALID", "ABORTED"}

\* find_expiration_time(): a reading of the clock, and the TTL
find_expiration_time(reading) == reading + TTL_ON_FINAL_STATE

\* a condition that every item passes
attribute_anything(table, token) == TRUE

\* ConditionExpression='attribute_not_exists(expiration_time)' on the item of
\* the key, which no item passes as well
attribute_not_exists_expiration_time(table, token) ==
    token \in DOMAIN table => "expiration_time" \notin DOMAIN table[token]

\* an item that holds no expiration time, whatever its state
callback_item_plain(callback_token, payload_key, items, workflow_state, reading) ==
    [callback_token |-> callback_token,
     collections_items |-> items,
     workflow_collections256_itemids256 |-> payload_key,
     workflow_state |-> workflow_state]

\* the item create_callback puts, for a reading of the clock
callback_item(callback_token, payload_key, items, workflow_state, reading) ==
    LET item == [callback_token |-> callback_token,
                 collections_items |-> items,
                 workflow_collections256_itemids256 |-> payload_key,
                 workflow_state |-> workflow_state]
    IN  IF workflow_state \in FINAL_STATES
        THEN With(item, "expiration_time", find_expiration_time(reading))
        ELSE item

\* the table after table.put_item(Item=item, ConditionExpression=...) has passed
create_callback(table, token, item) ==
    [t \in DOMAIN table \cup {token} |-> IF t = token THEN item ELSE table[t]]

\* an update that sets the state and no expiration time
set_final_state_open(table, token, final_state, expiration) ==
    LET old == IF token \in DOMAIN table THEN table[token]
               ELSE [callback_token |-> token]
        new == With(old, "workflow_state", final_state)
    IN  [t \in DOMAIN table \cup {token} |-> IF t = token THEN new ELSE table[t]]

\* the table after table.update_item(Key=..., UpdateExpression='SET ...',
\* ConditionExpression=...) has passed: the item of the key, made if there is
\* none, has the two attributes set
set_final_state(table, token, final_state, expiration) ==
    LET old == IF token \in DOMAIN table THEN table[token]
               ELSE [callback_token |-> token]
        new == With(With(old, "expiration_time", expiration),
                    "workflow_state", final_state)
    IN  [t \in DOMAIN table \cup {token} |-> IF t = token THEN new ELSE table[t]]

\* the callback table after request r, and what the caller gets
CbPasses(table, r) == attribute_not_exists_expiration_time(table, r.token)

CbEffect(table, r) ==
    IF ~CbPasses(table, r) THEN table
    ELSE IF r.op = "create_callback" THEN create_callback(table, r.token, r.item)
    ELSE set_final_state(table, r.token, r.state, r.expiration)

CbOutcome(table, r) ==
    IF CbPasses(table, r) THEN "ok" ELSE "ConditionalCheckFailedException"

\* the calls made so far
CbCalls == cblast.n + Cardinality({p \in Clients : cbreq[p] # Idle})

PayloadKeys == {"k1", "k2"}
CallbackItems == << "c/a" >>
WorkflowStates == {"PROCESSING", "COMPLETED"}
FinalStateArgs == {"COMPLETED", "FAILED", "PROCESSING"}

\* create_callback(callback_token, payload_key, items, workflow_state), up to
\* the call of the table; it reads the clock for a final state only
CreateCallback ==
    \E p \in Clients, t \in Tokens, k \in PayloadKeys, ws \in WorkflowStates :
        /\ cbreq[p] = Idle
        /\ CbCalls < MaxCbCalls
        /\ now' = IF ws \in FINAL_STATES THEN now + 1 ELSE now
        /\ cbreq' = [cbreq EXCEPT ![p] =
                        [op |-> "create_callback", token |-> t,
                         item |-> callback_item(t, k, CallbackItems, ws, now + 1)]]
        /\ UNCHANGED <<cb, cblast, resolves, notCb>>

\* set_final_state(callback_token, final_state) with a final state, up to the
\* call of the table
SetFinalState ==
    \E p \in Clients, t \in Tokens, fs \in FinalStateArgs :
        /\ cbreq[p] = Idle
        /\ CbCalls < MaxCbCalls
        /\ fs \in FINAL_STATES
        /\ now' = now + 1
        /\ cbreq' = [cbreq EXCEPT ![p] =
                        [op |-> "set_final_state", token |-> t, state |-> fs,
                         expiration |-> find_expiration_time(now + 1)]]
        /\ UNCHANGED <<cb, cblast, resolves, notCb>>

\* set_final_state with a state that is not final: ValueError, and no call of
\* the table
SetFinalStateRaises ==
    \E p \in Clients, t \in Tokens, fs \in FinalStateArgs :
        /\ cbreq[p] = Idle
        /\ fs \notin FINAL_STATES
        /\ cblast' = [op |-> "set_final_state", token |-> t, n |-> cblast.n,
                      outcome |-> "ValueError"]
        /\ UNCHANGED <<cb, cbreq, resolves, now, notCb>>

\* the table applies the request of caller p, who gets the response or the
\* ConditionalCheckFailedException
SendCb ==
    \E p \in Clients :
        /\ cbreq[p] # Idle
        /\ LET r == cbreq[p]
           IN  /\ cb' = CbEffect(cb, r)
               /\ cblast' = [op |-> r.op, token |-> r.token, n |-> cblast.n + 1,
                             outcome |-> CbOutcome(cb, r)]
               /\ resolves' =
                     IF r.op = "set_final_state"
                     THEN [resolves EXCEPT ![r.token] =
                              Append(@, [state |-> r.state, outcome |-> CbOutcome(cb, r)])]
                     ELSE resolves
        /\ cbreq' = [cbreq EXCEPT ![p] = Idle]
        /\ UNCHANGED <<now, notCb>>

NextCb == CreateCallback \/ SetFinalState \/ SetFinalStateRaises \/ SendCb

InitCb == StoreInit /\ CallIdle /\ KeyIdle /\ IdIdle /\ RestIdle

SpecCb == InitCb /\ [][NextCb]_vars

----------------------------------------------------------------------------
(* SpecBatch: one call of create_callbacks, set_final_state_multiple or    *)
(* set_final_state on a callback table that holds records already.  Every   *)
(* call of the table either raises a store error (a ClientError that is not *)
(* the failed condition) or is applied under its condition.                 *)
(* src/src/cirrus/lib/callbackdb.py, lines 99-128, 181-212 and 214-242.     *)

\* a batch has at most MaxBatch tokens
MaxBatch == 2

\* a check that every state passes
check_any_state(final_state) == "ok"

\* if final_state not in FINAL_STATES: raise ValueError(...)
check_final_state(final_state) ==
    IF final_state \notin FINAL_STATES THEN "ValueError" ELSE "ok"

\* an except clause that lets the exception through
create_callbacks_reraise(err) == err

\* create_callbacks: except Exception: logger.exception(...); what is raised
\* to the caller of create_callbacks after the handler
create_callbacks_except(err) == "none"

\* an except clause that lets the exception through
set_final_state_multiple_reraise(err) == err

\* set_final_state_multiple: except Exception: logger.exception(...)
set_final_state_multiple_except(err) == "none"

\* what a call of the table gives: a store error, or the outcome of the
\* condition
TableOutcome(table, token, fault) ==
    IF fault THEN "ClientError"
    ELSE IF attribute_not_exists_expiration_time(table, token) THEN "ok"
    ELSE "ConditionalCheckFailedException"

\* lists of at most MaxBatch tokens, in which a token may occur twice
RECURSIVE TokenLists(_)
TokenLists(n) ==
    IF n = 0 THEN { << >> }
    ELSE TokenLists(n - 1) \cup
         { Append(l, t) : l \in {l \in TokenLists(n - 1) : Len(l) = n - 1}, t \in Tokens }

\* a record create_callback has stored in a state that is not final, and the
\* record after a set_final_state
OpenRecord(t) == callback_item(t, "k1", CallbackItems, "PROCESSING", 0)
ResolvedRecord(t) ==
    set_final_state([u \in {t} |-> OpenRecord(t)], t, "FAILED",
                    find_expiration_time(0))[t]

\* the tables a batch finds: a token has no record, an open one or a resolved one
BatchTables ==
    UNION { { [t \in S |-> IF t \in R THEN ResolvedRecord(t) ELSE OpenRecord(t)]
              : R \in SUBSET S } : S \in SUBSET Tokens }

BatchDone == batch.op # "none" /\ (batch.raised # "none" \/ batch.at > Len(batch.tokens))

NewBatch(op, tokens, key, state, raised) ==
    [op |-> op, tokens |-> tokens, key |-> key, state |-> state, at |-> 1,
     outcomes |-> << >>, raised |-> raised, before |-> cb]

\* create_callbacks(callback_tokens, payload_key, items, workflow_state) is called
CreateCallbacks ==
    \E tokens \in TokenLists(MaxBatch), k \in PayloadKeys, ws \in WorkflowStates :
        /\ batch.op = "none"
        /\ batch' = NewBatch("create_callbacks", tokens, k, ws, "none")
        /\ UNCHANGED <<cb, cblast, now, notBatch>>

\* one turn of the loop of create_callbacks: create_callback for the token,
\* in a try
CreateCallbacksStep ==
    \E fault \in BOOLEAN :
        /\ batch.op = "create_callbacks"
        /\ ~BatchDone
        /\ LET token == batch.tokens[batch.at]
               final == batch.state \in FINAL_STATES
               item == callback_item(token, batch.key, CallbackItems, batch.state, now + 1)
               outcome == TableOutcome(cb, token, fault)
           IN  /\ now' = IF final THEN now + 1 ELSE now
               /\ cb' = IF outcome = "ok" THEN create_callback(cb, token, item) ELSE cb
               /\ batch' = [batch EXCEPT
                              !.at = @ + 1,
                              !.outcomes = Append(@, outcome),
                              !.raised = IF outcome = "ok" THEN "none"
                                         ELSE create_callbacks_except(outcome)]
        /\ UNCHANGED <<cblast, notBatch>>

\* set_final_state_multiple(callback_tokens, final_state) is called with a
\* final state
SetFinalStateMultiple ==
    \E tokens \in TokenLists(MaxBatch), fs \in FinalStateArgs :
        /\ batch.op = "none"
        /\ check_final_state(fs) = "ok"
        /\ batch' = NewBatch("set_final_state_multiple", tokens, "none", fs, "none")
        /\ UNCHANGED <<cb, cblast, now, notBatch>>

\* set_final_state_multiple is called with a state that is not final
SetFinalStateMultipleRaises ==
    \E tokens \in TokenLists(MaxBatch), fs \in FinalStateArgs :
        /\ batch.op = "none"
        /\ check_final_state(fs) # "ok"
        /\ batch' = NewBatch("set_final_state_multiple", tokens, "none", fs,
                             check_final_state(fs))
        /\ UNCHANGED <<cb, cblast, now, notBatch>>

\* one turn of the loop of set_final_state_multiple: set_final_state for the
\* token, in a try
SetFinalStateMultipleStep ==
    \E fault \in BOOLEAN :
        /\ batch.op = "set_final_state_multiple"
        /\ ~BatchDone
        /\ LET token == batch.tokens[batch.at]
               outcome == TableOutcome(cb, token, fault)
           IN  /\ now' = now + 1
               /\ cb' = IF outcome = "ok"
                        THEN set_final_state(cb, token, batch.state,
                                             find_expiration_time(now + 1))
                        ELSE cb
               /\ batch' = [batch EXCEPT
                              !.at = @ + 1,
                              !.outcomes = Append(@, outcome),
                              !.raised = IF outcome = "ok" THEN "none"
                                         ELSE set_final_state_multiple_except(outcome)]
        /\ UNCHANGED <<cblast, notBatch>>

\* set_final_state(callback_token, final_state) is called with a final state:
\* what the table raises, the caller gets
SetFinalStateCall ==
    \E t \in Tokens, fs \in FinalStateArgs, fault \in BOOLEAN :
        /\ batch.op = "none"
        /\ check_final_state(fs) = "ok"
        /\ LET outcome == TableOutcome(cb, t, fault)
           IN  /\ now' = now + 1
               /\ cb' = IF outcome = "ok"
                        THEN set_final_state(cb, t, fs, find_expiration_time(now + 1))
                        ELSE cb
               /\ batch' = [NewBatch("set_final_state", << t >>, "none", fs,
                                     IF outcome = "ok" THEN "none" ELSE outcome)
                              EXCEPT !.at = 2, !.outcomes = << outcome >>]
        /\ UNCHANGED <<cblast, notBatch>>

\* set_final_state is called with a state that is not final
SetFinalStateCallRaises ==
    \E t \in Tokens, fs \in FinalStateArgs :
        /\ batch.op = "none"
        /\ check_final_state(fs) # "ok"
        /\ batch' = NewBatch("set_final_state", << t >>, "none", fs, check_final_state(fs))
        /\ UNCHANGED <<cb, cblast, now, notBatch>>

NextBatch ==
    \/ CreateCallbacks
    \/ CreateCallbacksStep
    \/ SetFinalStateMultiple
    \/ SetFinalStateMultipleRaises
    \/ SetFinalStateMultipleStep
    \/ SetFinalStateCall
    \/ SetFinalStateCallRaises

InitBatch ==
    /\ StoreInit /\ CallIdle /\ KeyIdle /\ IdIdle
    /\ NewIdle /\ AssignIdle /\ NextIdle /\ LateIdle
    /\ cb \in BatchTables
    /\ cbreq = [p \in Clients |-> Idle]
    /\ cblast = NoCbRequest
    /\ resolves = [t \in Tokens |-> << >>]

SpecBatch == InitBatch /\ [][NextBatch]_vars

----------------------------------------------------------------------------
(* SpecTok: one call of get_payload_callback_tokens on a callback table     *)
(* that holds records already, some of them resolved before the call.  The  *)
(* table answers a query of the index by_payload a page at a time.          *)
(* src/src/cirrus/lib/callbackdb.py, lines 130-179.                         *)

\* a page of the index holds at most MaxPageSize records
MaxPageSize == 2

\* the tables of few records hold at most MaxSmall records
MaxSmall == 3

\* the tables of many records hold at most MAX_PAGES + MaxExtra records
MaxExtra == 2

\* MAX_PAGES = 100
MAX_PAGES == 100

\* IN_PROGRESS_STATES, of cirrus.lib.statedb
IN_PROGRESS_STATES == {"QUEUED", "PROCESSING"}

\* the callback tokens, in the order in which the index holds them
Token(i) == "t" \o ToString(i)
TopToken == MAX_PAGES + MaxExtra
TokenOrder == [i \in 1..TopToken |-> Token(i)]

min(a, b) == IF a < b THEN a ELSE b

\* the partition of the index by_payload for a payload key: the tokens of the
\* records that hold the key, in the order of the index
by_payload(table, payload_key) ==
    LET Holds(t) ==
            /\ t \in DOMAIN table
            /\ "workflow_collections256_itemids256" \in DOMAIN table[t]
            /\ table[t].workflow_collections256_itemids256 = payload_key
    IN  SelectSeq(TokenOrder, Holds)

\* table.query(**query): the table reads the records of the partition that
\* follow ExclusiveStartKey, a page of them, keeps those that pass the
\* FilterExpression, and gives LastEvaluatedKey when records are left
query_callbacks(table, payload_key, exclude_final_states, start, size) ==
    LET part == by_payload(table, payload_key)
        upto == min(start + size, Len(part))
        read == SubSeq(part, start + 1, upto)
        Passes(t) == table[t].workflow_state \in IN_PROGRESS_STATES
    IN  [Items |-> IF exclude_final_states THEN SelectSeq(read, Passes) ELSE read,
         LastEvaluatedKey |-> IF upto < Len(part) THEN upto ELSE 0]

\* [item['callback_token']['S'] for item in response['Items']]: the table of
\* boto3.resource('dynamodb') gives the attributes as Python values, so the
\* token is a str, and a str subscripted with 'S' raises TypeError
tokens_of(items) ==
    [raised |-> IF items = << >> THEN "none" ELSE "TypeError", tokens |-> << >>]

\* a record that create_callback has stored
StoredRecord(t, payload_key, workflow_state) ==
    callback_item(t, payload_key, CallbackItems, workflow_state, 0)

\* tables of few records: a token has no record or an open one, of any payload key
SmallTables ==
    UNION { [ {Token(i) : i \in S} -> {"k1", "k2"} ] : S \in SUBSET (1..MaxSmall) }

\* tables of many records, all of one payload key and in one state
ManyTables ==
    { [t \in {Token(i) : i \in 1..n} |-> StoredRecord(t, "k1", ws)]
        : n \in (MAX_PAGES - 1)..(MAX_PAGES + MaxExtra), ws \in WorkflowStates }

ScanInit ==
    \/ \E keys \in SmallTables :
          cb = [t \in DOMAIN keys |-> StoredRecord(t, keys[t], "PROCESSING")]
    \/ cb \in ManyTables

\* set_final_state(callback_token, final_state), applied by the table before
\* the scan is called
ResolveToken ==
    \E i \in 1..MaxSmall, fs \in {"COMPLETED", "FAILED"} :
        /\ scan.op = "none"
        /\ Cardinality(DOMAIN cb) <= MaxSmall
        /\ attribute_not_exists_expiration_time(cb, Token(i))
        /\ now' = now + 1
        /\ cb' = set_final_state(cb, Token(i), fs, find_expiration_time(now + 1))
        /\ UNCHANGED <<scan, db, req, last, newest, callVars, keyVars, idVars, newVars,
                       assignVars, nextVars, cbreq, cblast, resolves, batchVars, askVars, runVars>>

\* get_payload_callback_tokens(payload_key, exclude_final_states) is called
GetPayloadCallbackTokens ==
    \E k \in PayloadKeys, x \in BOOLEAN, size \in 1..MaxPageSize :
        /\ scan.op = "none"
        /\ scan' = [op |-> "get_payload_callback_tokens", payload_key |-> k,
                    exclude_final_states |-> x, size |-> size, page |-> 0,
                    start |-> 0, queries |-> 0, tokens |-> << >>,
                    logged |-> FALSE, outcome |-> "running"]
        /\ UNCHANGED <<cb, notScan>>

\* one turn of the loop: a query, the tokens of its items, and the two tests
\* that end the loop
QueryPage ==
    /\ scan.op # "none"
    /\ scan.outcome = "running"
    /\ LET response == query_callbacks(cb, scan.payload_key, scan.exclude_final_states,
                                       scan.start, scan.size)
           more == tokens_of(response.Items)
           asked == [scan EXCEPT !.queries = @ + 1]
       IN  scan' =
             IF more.raised # "none"
             THEN [asked EXCEPT !.outcome = more.raised]
             ELSE IF response.LastEvaluatedKey = 0
             THEN [asked EXCEPT !.tokens = @ \o more.tokens, !.outcome = "returned"]
             ELSE IF scan.page >= MAX_PAGES
             THEN [asked EXCEPT !.tokens = @ \o more.tokens, !.logged = TRUE,
                                !.outcome = "returned"]
             ELSE [asked EXCEPT !.tokens = @ \o more.tokens,
                                !.start = response.LastEvaluatedKey,
                                !.page = @ + 1]
    /\ UNCHANGED <<cb, notScan>>

NextTok == ResolveToken \/ GetPayloadCallbackTokens \/ QueryPage

InitTok ==
    /\ StoreInit /\ CallIdle /\ KeyIdle /\ IdIdle
    /\ NewIdle /\ AssignIdle /\ NextIdle /\ LateIdle
    /\ ScanInit
    /\ cbreq = [p \in Clients |-> Idle]
    /\ cblast = NoCbRequest
    /\ resolves = [t \in Tokens |-> << >>]

SpecTok == InitTok /\ [][NextTok]_vars

----------------------------------------------------------------------------
(* The reads of the StateDB.  The table holds the records that add_item and *)
(* set_completed have written, for payload ids of two collection groups; a  *)
(* read is answered from the table as it is.                                *)
(* src/cirruslib/statedb.py, lines 106-279 and 361-459.                     *)

\* the table holds what at most MaxWrites writes have made
MaxWrites == 3

\* get_states is asked for at most MaxAsked ids
MaxAsked == 2

\* the payload ids of the records: "c/workflow-w/a", "c/workflow-w/b" and
\* "d/workflow-w/a"; nothing is written under "c/workflow-w/z"
ReadIds == { <<"c", WF, "w", SL, "a">>, <<"c", WF, "w", SL, "b">>,
             <<"d", WF, "w", SL, "a">> }
UnknownId == <<"c", WF, "w", SL, "z">>

\* the writes that make the records
WriteOps == {"add_item", "set_completed"}

\* a client writes: the request, with a reading of the clock, and the table's
\* answer to it
StoreWrite ==
    \E catid \in ReadIds, op \in WriteOps :
        /\ now < MaxWrites
        /\ ask.op = "none"
        /\ now' = now + 1
        /\ db' = Effect(db, Request(op, catid, now + 1, "v1"))
        /\ UNCHANGED <<ask, answer, notAsk>>

\* lists of 1..n payload ids, in which an id may occur twice
RECURSIVE IdLists(_)
IdLists(n) ==
    IF n = 0 THEN { << >> }
    ELSE IdLists(n - 1) \cup
         { Append(l, c) : l \in {l \in IdLists(n - 1) : Len(l) = n - 1}, c \in ReadIds \cup {UnknownId} }

\* batch_get_item(RequestItems={table: {'Keys': keys}}): the items of the keys
\* that have one; DynamoDB rejects a list that holds a key twice
batch_get_item(table, keys) ==
    IF \E i, j \in 1..Len(keys) : i # j /\ keys[i] = keys[j]
    THEN [raised |-> "ClientError", Responses |-> {}]
    ELSE [raised |-> "none",
          Responses |-> { table[k] : k \in {keys[i] : i \in 1..Len(keys)} \cap DOMAIN table }]

\* get_dbitems: the items of batch_get_item; an error is raised again as Exception
get_dbitems(table, catids) ==
    LET resp == batch_get_item(table, [i \in 1..Len(catids) |-> catid_to_key(catids[i])])
    IN  IF resp.raised # "none"
        THEN [raised |-> "Exception", items |-> {}]
        ELSE [raised |-> "none", items |-> resp.Responses]

\* dbitem_to_item: catid and state of the item it makes; dbitem['output_collections']
\* and dbitem['created_at'] raise KeyError on an item that lacks them
dbitem_to_item(dbitem) ==
    IF {"output_collections", "created_at"} \subseteq DOMAIN dbitem
    THEN [raised |-> "none", catid |-> key_to_catid(dbitem), state |-> StateOf(dbitem)]
    ELSE [raised |-> "KeyError", catid |-> << >>, state |-> ""]

\* get_states: states[item['catid']] = item['state'] for the items of get_dbitems
get_states(table, catids) ==
    LET dbitems == get_dbitems(table, catids)
        items == {dbitem_to_item(d) : d \in dbitems.items}
    IN  IF dbitems.raised # "none"
        THEN [raised |-> dbitems.raised, value |-> << >>]
        ELSE IF \E item \in items : item.raised # "none"
        THEN [raised |-> "KeyError", value |-> << >>]
        ELSE [raised |-> "none",
              value |-> [c \in {item.catid : item \in items} |->
                            (CHOOSE item \in items : item.catid = c).state]]

\* get_state(catid) is called
GetState ==
    \E catid \in ReadIds \cup {UnknownId} :
        /\ ask.op = "none"
        /\ ask' = [op |-> "get_state", catid |-> catid]
        /\ answer' = [op |-> "get_state", raised |-> "none", value |-> get_state(db, catid)]
        /\ UNCHANGED <<db, now, notAsk>>

\* get_states(catids) is called
GetStates ==
    \E catids \in IdLists(MaxAsked) \ { << >> } :
        /\ ask.op = "none"
        /\ ask' = [op |-> "get_states", catids |-> catids]
        /\ answer' = [op |-> "get_states"] @@ get_states(db, catids)
        /\ UNCHANGED <<db, now, notAsk>>

NextRead == StoreWrite \/ GetState \/ GetStates

InitRead == StoreInit /\ CallIdle /\ KeyIdle /\ IdIdle /\ RestIdle

SpecRead == InitRead /\ [][NextRead]_vars

----------------------------------------------------------------------------
(* The queries of the index input_state: query, get_counts and              *)
(* get_items_page.  The clock counts minutes; a call of query with a state  *)
(* and a since reads it twice.  The table answers a query a page at a time. *)
(* src/cirruslib/statedb.py, lines 156-228, 361-384 and 443-459.            *)

\* limit is at most MaxLimit
MaxLimit == 2

\* a since text has at most MaxSince characters
MaxSince == 3

\* state=None and state='' are both false in "if state"; since=None and
\* since='' are both false in "if since"; limit=None and limit=0 are both
\* false in "if limit"
NoState == ""
NoSince == << >>
NoLimit == 0

\* int(text): text.strip(), a sign, and digits; ValueError for any other text
DigitValue(ch) == CASE ch = "0" -> 0 [] ch = "1" -> 1 [] ch = "2" -> 2

RECURSIVE strip(_)
strip(text) ==
    IF text # << >> /\ Head(text) = " " THEN strip(Tail(text))
    ELSE IF text # << >> /\ text[Len(text)] = " " THEN strip(SubSeq(text, 1, Len(text) - 1))
    ELSE text

RECURSIVE decimal(_)
decimal(digits) ==
    IF digits = << >> THEN 0
    ELSE 10 * decimal(SubSeq(digits, 1, Len(digits) - 1)) + DigitValue(digits[Len(digits)])

int(text) ==
    LET body == strip(text)
        signed == body # << >> /\ Head(body) \in {"-", "+"}
        digits == IF signed THEN Tail(body) ELSE body
    IN  IF digits = << >> \/ \E i \in 1..Len(digits) : digits[i] \notin {"0", "1", "2"}
        THEN [raised |-> "ValueError", value |-> 0]
        ELSE [raised |-> "none",
              value |-> IF signed /\ Head(body) = "-" THEN 0 - decimal(digits)
                        ELSE decimal(digits)]

\* since_to_timedelta, in minutes: since[-1] of '' raises IndexError, the
\* assert on the unit AssertionError, int() ValueError
since_to_timedelta(since) ==
    IF since = << >> THEN [raised |-> "IndexError", minutes |-> 0]
    ELSE LET unit == since[Len(since)]
             n == int(SubSeq(since, 1, Len(since) - 1))
         IN  IF unit \notin {"d", "h", "m"} THEN [raised |-> "AssertionError", minutes |-> 0]
             ELSE IF n.raised # "none" THEN [raised |-> n.raised, minutes |-> 0]
             ELSE [raised |-> "none",
                   minutes |-> CASE unit = "d" -> 24 * 60 * n.value
                                 [] unit = "h" -> 60 * n.value
                                 [] unit = "m" -> n.value]

\* the order of current_state in the index: f"{state}_{isoformat}" as text,
\* which is the order of the state names and then that of the timestamps
StateNames == <<"ABORTED", "COMPLETED", "FAILED", "INVALID", "PROCESSING", "QUEUED">>
StateRank(state) == CHOOSE i \in 1..Len(StateNames) : StateNames[i] = state
Before(a, b) ==
    \/ StateRank(a[1]) < StateRank(b[1])
    \/ a[1] = b[1] /\ a[2] <= b[2]

\* the one value of a set of one value
the(S) == CHOOSE x \in S : TRUE

RECURSIVE index_order(_, _)
index_order(table, keys) ==
    IF keys = {} THEN << >>
    ELSE the({ << k >> \o index_order(table, keys \ {k}) :
               k \in { CHOOSE k \in keys :
                         \A j \in keys :
                             Before(table[k].current_state, table[j].current_state) } })

\* Key('current_state').between(begin, end) without its lower end
at_most(current_state, begin, end) ==
    current_state[1] = end[1] /\ current_state[2] <= end[2]

\* Key('current_state').between(begin, end)
between(current_state, begin, end) ==
    /\ current_state[1] = begin[1]
    /\ begin[2] <= current_state[2]
    /\ current_state[2] <= end[2]

\* Key('current_state').begins_with(state)
begins_with(current_state, state) == current_state[1] = state

\* query(collection, state, since, index='input_state', select, **kwargs):
\* kw holds ExclusiveStartKey (a place in the index, 0 for none), the number
\* of records the table reads for a page, and the clock before the call
query(table, collection, state, since, kw) ==
    LET windowed == state # NoState /\ since # NoSince
        delta == IF windowed THEN since_to_timedelta(since)
                 ELSE [raised |-> "none", minutes |-> 0]
        begin == StateStamp(state, (kw.clock + 1) - delta.minutes)
        end == StateStamp(state, kw.clock + 2)
        Meets(k) ==
            /\ k.input_collections = collection
            /\ IF windowed THEN between(table[k].current_state, begin, end)
               ELSE IF state # NoState THEN begins_with(table[k].current_state, state)
               ELSE TRUE
    IN  IF delta.raised # "none"
        THEN [raised |-> delta.raised, Items |-> << >>, Count |-> 0,
              LastEvaluatedKey |-> 0, queries |-> 0, readings |-> 0]
        ELSE the({ LET upto == min(kw.ExclusiveStartKey + kw.page, Len(found))
                       items == SubSeq(found, kw.ExclusiveStartKey + 1, upto)
                   IN  [raised |-> "none", Items |-> items, Count |-> Len(items),
                        LastEvaluatedKey |-> IF upto < Len(found) THEN upto ELSE 0,
                        queries |-> 1, readings |-> IF windowed THEN 2 ELSE 0] :
                   found \in { index_order(table, {k \in DOMAIN table : Meets(k)}) } })

\* "limit and counts[state] >= limit"
at_limit(limit, count) == limit # NoLimit /\ count >= limit

\* "limit and counts[state] > limit"
over_limit(limit, count) == limit # NoLimit /\ count > limit

\* the count of one state: the first query, then "while 'LastEvaluatedKey' in
\* resp", which adds the Count of each page and breaks over the limit; c is
\* the call, n the count so far, sofar the queries and readings so far
RECURSIVE count_pages(_, _, _, _, _)
count_pages(c, state, start, n, sofar) ==
    the({ LET sum == n + resp.Count
              now_made == [queries |-> sofar.queries + resp.queries,
                           readings |-> sofar.readings + resp.readings]
          IN  IF resp.raised # "none"
              THEN [raised |-> resp.raised, n |-> n, sofar |-> now_made]
              ELSE IF sofar.first = FALSE /\ over_limit(c.limit, sum)
              THEN [raised |-> "none", n |-> sum, sofar |-> now_made]
              ELSE IF resp.LastEvaluatedKey # 0
              THEN the({ count_pages(c, state, resp.LastEvaluatedKey, counted, queried) :
                         counted \in {sum},
                         queried \in {now_made @@ [first |-> FALSE]} })
              ELSE [raised |-> "none", n |-> sum, sofar |-> now_made] :
          resp \in { query(c.table, c.collection, state, c.since,
                           [ExclusiveStartKey |-> start, page |-> c.page,
                            clock |-> c.clock + sofar.readings]) } })

\* a count of get_counts: a number, or f"{limit}+"
Exactly(n) == [kind |-> "int", n |-> n]
Plus(limit) == [kind |-> "str", n |-> limit]

\* get_counts, for the states it is asked for, one after the other
RECURSIVE count_states(_, _, _, _)
count_states(c, states, counts, sofar) ==
    IF states = << >>
    THEN [raised |-> "none", counts |-> counts, sofar |-> sofar]
    ELSE the({ LET count == IF over_limit(c.limit, one.n) THEN Plus(c.limit)
                            ELSE Exactly(one.n)
               IN  IF one.raised # "none"
                   THEN [raised |-> one.raised, counts |-> counts, sofar |-> one.sofar]
                   ELSE the({ count_states(c, rest, counted, queried) :
                              rest \in {Tail(states)},
                              counted \in {counts @@ (Head(states) :> count)},
                              queried \in {one.sofar} }) :
               one \in { count_pages(c, Head(states), 0, 0,
                                     [queries |-> sofar.queries,
                                      readings |-> sofar.readings, first |-> TRUE]) } })

get_counts(c) ==
    count_states(c, IF c.state # NoState THEN << c.state >> ELSE STATES, << >>,
                 [queries |-> 0, readings |-> 0])

\* get_items_page(collection, state, since, limit=100) without a nextkey: one
\* query, and dbitem_to_item for each of its items
get_items_page(c) ==
    the({ IF resp.raised # "none"
          THEN [raised |-> resp.raised, items |-> << >>, sofar |-> resp]
          ELSE IF \E i \in 1..Len(resp.Items) :
                      dbitem_to_item(c.table[resp.Items[i]]).raised # "none"
          THEN [raised |-> "KeyError", items |-> << >>, sofar |-> resp]
          ELSE [raised |-> "none",
                items |-> [i \in 1..Len(resp.Items) |->
                              dbitem_to_item(c.table[resp.Items[i]])],
                sofar |-> resp] :
          resp \in { query(c.table, c.collection, c.state, c.since,
                           [ExclusiveStartKey |-> 0, page |-> c.page,
                            clock |-> c.clock]) } })

\* the collection groups asked for
Groups == { << "c" >>, << "d" >> }

\* the states asked for
AskedStates == {NoState, "PROCESSING", "COMPLETED"}

\* get_counts(collection, state, limit=limit) is called
GetCounts ==
    \E collection \in Groups, state \in AskedStates, limit \in 0..MaxLimit,
       page \in 1..MaxPageSize :
        /\ ask.op = "none"
        /\ ask' = [op |-> "get_counts", collection |-> collection, state |-> state,
                   since |-> NoSince, limit |-> limit, page |-> page]
        /\ answer' = [op |-> "get_counts"] @@
                     get_counts([table |-> db, collection |-> collection, state |-> state,
                                 since |-> NoSince, limit |-> limit, page |-> page,
                                 clock |-> now])
        /\ UNCHANGED <<db, now, notAsk>>

NextCounts == StoreWrite \/ GetCounts

InitCounts == StoreInit /\ CallIdle /\ KeyIdle /\ IdIdle /\ RestIdle

SpecCounts == InitCounts /\ [][NextCounts]_vars

\* the since texts of the queries: "1m" and "2m"
Windows == { <<"1", "m">>, <<"2", "m">> }

\* query(collection, state, since=since) is called: it reads the clock twice
\* and the table answers with a page
Query ==
    \E collection \in Groups, state \in AskedStates \ {NoState}, since \in Windows,
       page \in 1..MaxPageSize :
        /\ ask.op = "none"
        /\ ask' = [op |-> "query", collection |-> collection, state |-> state,
                   since |-> since, page |-> page, T |-> now + 1]
        /\ answer' = [op |-> "query"] @@
                     query(db, collection, state, since,
                           [ExclusiveStartKey |-> 0, page |-> page, clock |-> now])
        /\ now' = now + 2
        /\ UNCHANGED <<db, notAsk>>

NextList == StoreWrite \/ Query

InitList == StoreInit /\ CallIdle /\ KeyIdle /\ IdIdle /\ RestIdle

SpecList == InitList /\ [][NextList]_vars

\* the texts of at most n characters
SinceChars == {"1", "2", "-", " ", "d", "h", "m", "x"}

RECURSIVE SinceTexts(_)
SinceTexts(n) ==
    IF n = 0 THEN { << >> }
    ELSE SinceTexts(n - 1) \cup
         { Append(t, ch) : t \in {t \in SinceTexts(n - 1) : Len(t) = n - 1}, ch \in SinceChars }

\* since_to_timedelta(since) is called
SinceToTimedelta ==
    \E since \in SinceTexts(MaxSince) :
        /\ ask.op = "none"
        /\ ask' = [op |-> "since_to_timedelta", since |-> since]
        /\ answer' = [op |-> "since_to_timedelta"] @@ since_to_timedelta(since)
        /\ UNCHANGED <<db, now, notAsk>>

\* get_items_page(collection, state, since=since) is called
GetItemsPage ==
    \E state \in {NoState, "QUEUED"}, since \in SinceTexts(MaxSince) :
        /\ ask.op = "none"
        /\ ask' = [op |-> "get_items_page", state |-> state, since |-> since]
        /\ LET got == get_items_page([table |-> db, collection |-> << "c" >>,
                                      state |-> state, since |-> since, page |-> 1,
                                      clock |-> now])
           IN  /\ answer' = [op |-> "get_items_page", raised |-> got.raised,
                             queries |-> got.sofar.queries]
               /\ now' = now + got.sofar.readings
        /\ UNCHANGED <<db, notAsk>>

\* get_counts(collection, state, since=since) is called
GetCountsSince ==
    \E state \in {NoState, "QUEUED"}, since \in SinceTexts(MaxSince) :
        /\ ask.op = "none"
        /\ ask' = [op |-> "get_counts", state |-> state, since |-> since]
        /\ LET got == get_counts([table |-> db, collection |-> << "c" >>,
                                  state |-> state, since |-> since, limit |-> NoLimit,
                                  page |-> 1, clock |-> now])
           IN  /\ answer' = [op |-> "get_counts", raised |-> got.raised,
                             queries |-> got.sofar.queries]
               /\ now' = now + got.sofar.readings
        /\ UNCHANGED <<db, notAsk>>

NextSince == SinceToTimedelta \/ GetItemsPage \/ GetCountsSince

InitSince == StoreInit /\ CallIdle /\ KeyIdle /\ IdIdle /\ RestIdle

SpecSince == InitSince /\ [][NextSince]_vars

----------------
(* Properties *)

Terminal == {"COMPLETED", "FAILED", "INVALID", "ABORTED"}

Key == catid_to_key(PayloadId)

Present == Key \in DOMAIN db

\* no caller holds a request the table has not applied
Quiescent == \A p \in Procs : req[p] = Idle

\* the step applies a request that embeds a timestamp
Applies(op) == last'.ts # last.ts /\ last'.op = op

\* the state a request writes
Written(r) ==
    CASE r.op = "create_item" -> r.arg
      [] r.op \in {"add_item", "set_processing", "claim_processing"} -> "PROCESSING"
      [] r.op \in {"add_failed_item", "set_failed"} -> "FAILED"
      [] r.op = "set_completed" -> "COMPLETED"
      [] r.op = "set_invalid" -> "INVALID"
      [] r.op = "set_aborted" -> "ABORTED"
      [] OTHER -> ""

\* C1: when the callers run __call__ on the same payload id, whose record is
\* absent, and no upload and no start_execution raises, then once all have
\* returned exactly one of them has claimed the id (and returns it) and every
\* other one has returned None, the outcome of the ConditionalCheckFailedException.
C1_ExactlyOneClaims ==
    ((\A p \in Procs : pc[p] = "done") /\ ~faulted)
        => /\ Cardinality({p \in Procs : result[p] = "id"}) = 1
           /\ \A p \in Procs : result[p] \in {"id", "None"}

C1_Witness ==
    /\ \A p \in Procs : pc[p] = "done"
    /\ ~faulted
    /\ \E p \in Procs : result[p] = "id"
    /\ \E p \in Procs : result[p] = "None"

\* C2: a claim is rejected, and leaves the table as it is, when the record is in
\* PROCESSING; in every other case (no record, or a record in any other state)
\* it succeeds and leaves the record in PROCESSING with the timestamp of the claim.
C2_ClaimUnlessProcessing ==
    [][Applies("claim_processing") =>
        IF get_state(db, PayloadId) = "PROCESSING"
        THEN /\ last'.outcome = "ConditionalCheckFailedException"
             /\ db' = db
        ELSE /\ last'.outcome = "ok"
             /\ get_state(db', PayloadId) = "PROCESSING"
             /\ StampOf(db'[Key]) = last'.ts]_vars

\* the second call is a claim, and has succeeded on the record that the first
\* call had left FAILED or INVALID
C2_Witness ==
    /\ last.op = "claim_processing"
    /\ last.outcome = "ok"
    /\ last.ts = 2
    /\ now = 2
    /\ Present
    /\ "error_message" \in DOMAIN db[Key]
    /\ StateOf(db[Key]) = "PROCESSING"

\* C3 as claimed: but for a delete, a record in a terminal state keeps its state.
C3_TerminalIsFinal ==
    [][(get_state(db, PayloadId) \in Terminal /\ last'.op # "delete_item")
        => get_state(db', PayloadId) = get_state(db, PayloadId)]_vars

\* C3 as amended: a record in a terminal state changes its state only in a step
\* that applies a write to its payload id (a set_*, a successful claim, a
\* create/add item, a delete), and then holds the state that write sets.
C3_TerminalUntilWritten ==
    [][(get_state(db, PayloadId) \in Terminal
            /\ get_state(db', PayloadId) # get_state(db, PayloadId))
        => /\ last'.catid = PayloadId
           /\ last'.outcome = "ok"
           /\ get_state(db', PayloadId) = Written(last')]_vars

\* the second call is a set_completed, and has replaced the state of the record
\* that the first call had left FAILED or INVALID
C3_Witness ==
    /\ last.op = "set_completed"
    /\ last.ts = 2
    /\ now = 2
    /\ Present
    /\ "error_message" \in DOMAIN db[Key]
    /\ StateOf(db[Key]) = "COMPLETED"

\* C4 as claimed: a record enters PROCESSING only by a successful claim.
C4_ProcessingOnlyByClaim ==
    [][(get_state(db, PayloadId) # "PROCESSING"
            /\ get_state(db', PayloadId) = "PROCESSING")
        => (last'.op = "claim_processing" /\ last'.outcome = "ok")]_vars

\* C4 as amended: a record enters PROCESSING only by a successful claim, a
\* set_processing, an add_item or a create_item with state PROCESSING.
C4_ProcessingOnlyByWrite ==
    [][(get_state(db, PayloadId) # "PROCESSING"
            /\ get_state(db', PayloadId) = "PROCESSING")
        => /\ last'.ts # last.ts
           /\ last'.outcome = "ok"
           /\ \/ last'.op \in {"claim_processing", "set_processing", "add_item"}
              \/ last'.op = "create_item" /\ last'.arg = "PROCESSING"]_vars

\* the second call is a set_processing, and has put the record that the first
\* call had left COMPLETED into PROCESSING
C4_Witness ==
    /\ last.op = "set_processing"
    /\ last.ts = 2
    /\ now = 2
    /\ Present
    /\ "output_urls" \in DOMAIN db[Key]
    /\ StateOf(db[Key]) = "PROCESSING"

\* C5: once the table has applied a set_completed, set_failed, set_invalid or
\* set_aborted, whatever the record was before, the call has succeeded and the
\* record holds that state with the timestamp the call took, and the outputs
\* or the message of the call.
C5_TerminalTransitions ==
    last.op \in {"set_completed", "set_failed", "set_invalid", "set_aborted"}
        => /\ last.outcome = "ok"
           /\ Present
           /\ StateOf(db[Key]) = Written(last)
           /\ StampOf(db[Key]) = last.ts
           /\ last.op = "set_completed" => db[Key].output_urls = last.arg
           /\ last.op \in {"set_failed", "set_invalid"}
                 => db[Key].error_message = last.arg

\* the second call is a set_invalid, and has replaced the state of the record
\* that the first call had left COMPLETED
C5_Witness ==
    /\ last.op = "set_invalid"
    /\ last.ts = 2
    /\ now = 2
    /\ Present
    /\ "output_urls" \in DOMAIN db[Key]
    /\ StateOf(db[Key]) = "INVALID"

\* the execution history of a record: what its execution attribute holds
History(table) ==
    IF Key \in DOMAIN table /\ "execution" \in DOMAIN table[Key]
    THEN << table[Key].execution >>
    ELSE << >>

\* C6 as claimed: set_processing appends its execution to the history.
C6_ExecutionAppended ==
    [][Applies("set_processing") => History(db') = Append(History(db), last'.arg)]_vars

\* C7 as claimed: once the set_* calls of the callers are all applied, the
\* record holds the greatest of their timestamps.
C7_GreatestTimestampWins ==
    (Quiescent /\ last.op \in Transitions /\ Present)
        => StateOf(db[Key]) = newest[Key][1]

\* C7 as amended: the record holds the state and the timestamp of the set_*
\* call the table applied last, whether or not an earlier one embedded a
\* greater timestamp.
C7_LastAppliedWins ==
    (last.op \in Transitions)
        => /\ Present
           /\ StateOf(db[Key]) = Written(last)
           /\ StampOf(db[Key]) = last.ts

\* all calls are applied and the record holds the state of a call whose
\* timestamp is not the greatest
C7_Witness ==
    /\ Quiescent
    /\ last.op \in Transitions
    /\ Present
    /\ StampOf(db[Key]) < newest[Key][2]
    /\ StateOf(db[Key]) # newest[Key][1]

\* C8 as claimed: the payload id made of the key of a payload id is that id.
C8_RoundTrip == roundtrip # << >> => roundtrip = anId

\* C9: the id derived for a payload is the id derived for the same payload
\* with its features in any other order.
C9_PermutationInvariant ==
    ("id" \in DOMAIN payload /\ "id" \in DOMAIN original) => payload.id = original.id

\* an id is derived for a payload whose features are in another order
C9_Witness ==
    /\ "id" \in DOMAIN payload
    /\ "id" \in DOMAIN original
    /\ payload.features # original.features
    /\ "collections" \notin DOMAIN payload.process

\* the elements of a set of names in ascending order
RECURSIVE Ascending(_)
Ascending(S) ==
    IF S = {} THEN << >>
    ELSE LET x == CHOOSE x \in S : \A y \in S \ {x} : Less(x, y)
         IN  << x >> \o Ascending(S \ {x})

\* C10 as claimed, for a payload whose items carry a collection: the derived id
\* is the collections, sorted and without duplicates, then the workflow, then the
\* ids of the items, sorted and without duplicates.
C10_DerivedId ==
    ("id" \in DOMAIN payload
        /\ "collections" \notin DOMAIN payload.process
        /\ collections_of(payload.features) # << >>)
        => payload.id =
              join(Ascending(set(collections_of(payload.features))))
                  \o << WF >> \o payload.process.workflow \o << SL >>
                  \o join(Ascending(set(ids_of(payload.features))))

\* C11 as claimed: the id derived for a payload with no collections override
\* and no item that carries a collection is 'none/workflow-<workflow>/<item-ids>':
\* its collections segment is the sentinel 'none'.
C11_NoneSentinel ==
    ("id" \in DOMAIN payload
        /\ "collections" \notin DOMAIN payload.process
        /\ collections_of(payload.features) = << >>)
        => split(payload.id, WF)[1] = none

\* the cases in which the construction of a payload is to fail: the type is
\* not the marker (or there is none), there is no process (or an empty list of
\* stages), the stage has no workflow, neither upload_options nor
\* output_options, neither tasks nor functions, there is no feature, or the id,
\* when none is derived, is not there or has no marker
Rejected(raw, upd) ==
    \/ "type" \notin DOMAIN raw
    \/ raw.type # "FeatureCollection"
    \/ "process" \notin DOMAIN raw
    \/ "features" \notin DOMAIN raw
    \/ raw.features = << >>
    \/ IF "id" \in DOMAIN raw THEN ~(\E k \in 1..Len(raw.id) : raw.id[k] = WF) ELSE ~upd
    \/ /\ "process" \in DOMAIN raw
       /\ \/ raw.process = List(<< >>)
          \/ /\ raw.process # List(<< >>)
             /\ LET st == first_stage(raw.process)
                IN  \/ "workflow" \notin DOMAIN st
                    \/ {"upload_options", "output_options"} \cap DOMAIN st = {}
                    \/ {"tasks", "functions"} \cap DOMAIN st = {}

C13_NoMutationWhenInvalid ==
    Rejected(given.raw, given.update) =>
        /\ db = << >>
        /\ \A p \in Procs : req[p] = Idle
        /\ last = NoRequest
        /\ \A p \in Procs : pc[p] = "idle"

\* the constructor has raised on a payload with no feature
C13_Witness ==
    /\ made.outcome = "AssertionError"
    /\ "features" \in DOMAIN given.raw
    /\ given.raw.features = << >>
    /\ "id" \in DOMAIN given.raw
    /\ given.raw.id = PayloadId
    /\ db = << >>

\* the pairs of the mapping whose regex matches the id of an item
Matching(item) ==
    IF "collections" \in DOMAIN assigning.upload_options
    THEN {j \in 1..Len(assigning.upload_options.collections) :
             match(assigning.upload_options.collections[j].regex, item.id)}
    ELSE {}

\* C14: after assign_collections the collection of every item is the name of
\* the last pair of the mapping, in the order of its definition, whose regex
\* matches the id of the item, and an item that no pair matches is unchanged.
C14_LastMatchWins ==
    assigned # NotAssigned =>
        /\ Len(assigned) = Len(assigning.features)
        /\ \A k \in 1..Len(assigned) :
              LET item == assigning.features[k]
                  js == Matching(item)
              IN  IF js = {}
                  THEN assigned[k] = item
                  ELSE LET j == CHOOSE j \in js : \A i \in js : i <= j
                       IN  /\ assigned[k].collection =
                                 assigning.upload_options.collections[j].name
                           /\ assigned[k].id = item.id

\* an item that two pairs match has the collection of the second pair
C14_Witness ==
    /\ assigned # NotAssigned
    /\ Cardinality(Matching(assigning.features[1])) = 2
    /\ "collection" \in DOMAIN assigning.features[1]
    /\ assigned[1].collection = assigning.upload_options.collections[2].name
    /\ assigned[1].collection # assigning.features[1].collection

\* the plan of the completed payload is a list of two stages or more
Chained == completed.process.kind = "list" /\ Len(completed.process.value) >= 2

\* the branches of slot 1 of the plan of the completed payload
Branches ==
    LET s1 == completed.process.value[2]
    IN  IF s1.kind = "dict" THEN << s1 >> ELSE s1.value

\* C15: next_payloads yields no successor for a plan that is a single stage
\* (a dict) or a list of no stage or of one stage.
C15_NoSuccessor ==
    ~Chained => \A r \in 1..Len(yielded) : yielded[r] = << >>

\* next_payloads has run on a plan that is a list of one stage
C15_Witness ==
    /\ Len(yielded) >= 1
    /\ completed.process.kind = "list"
    /\ Len(completed.process.value) = 1
    /\ yielded[1] = << >>

\* C16: for a plan [S0, S1, S2, ..., Sn], n >= 1, next_payloads yields one
\* successor per branch of S1, in the order of the branches; the successor of
\* branch B has no id and the plan [B, S2, ..., Sn].
C16_OnePerBranch ==
    Chained =>
        \A r \in 1..Len(yielded) :
            LET plan == completed.process.value
            IN  /\ Len(yielded[r]) = Len(Branches)
                /\ \A k \in 1..Len(Branches) :
                      /\ "id" \notin DOMAIN yielded[r][k]
                      /\ yielded[r][k].process =
                            List(<< Branches[k] >> \o SubSeq(plan, 3, Len(plan)))
                      /\ Len(yielded[r][k].process.value) = Len(plan) - 1

\* next_payloads has run on a plan of three stages whose slot 1 is a fork of
\* two different branches
C16_Witness ==
    /\ Chained
    /\ Len(completed.process.value) = 3
    /\ completed.process.value[2].kind = "list"
    /\ Len(Branches) = 2
    /\ Branches[1] # Branches[2]
    /\ Len(yielded) >= 1
    /\ Len(yielded[1]) = 2

\* the items of a list that satisfy a filter, in the order of the list
RECURSIVE Kept(_, _)
Kept(features, filter) ==
    IF features = << >> THEN << >>
    ELSE IF satisfies(Head(features), filter)
    THEN << Head(features) >> \o Kept(Tail(features), filter)
    ELSE Kept(Tail(features), filter)

\* C17: the successor of a branch with a chain filter has the items of the
\* completed payload that satisfy the filter, in their order; the successor
\* of a branch without one has all the items of the completed payload.
C17_FilterPerBranch ==
    Chained =>
        \A r \in 1..Len(yielded) : \A k \in 1..Len(yielded[r]) :
            yielded[r][k].features =
                IF "chain_filter" \in DOMAIN Branches[k].value
                THEN Kept(completed.features, Branches[k].value.chain_filter)
                ELSE completed.features

\* the filter of the first branch of a fork has dropped an item that the
\* successor of the second branch and the completed payload still have
C17_Witness ==
    /\ Chained
    /\ Len(yielded) >= 1
    /\ Len(yielded[1]) = 2
    /\ "chain_filter" \in DOMAIN Branches[1].value
    /\ Len(yielded[1][1].features) = 1
    /\ Len(yielded[1][2].features) = 2
    /\ Len(completed.features) = 2

Expiring(table, t) == t \in DOMAIN table /\ "expiration_time" \in DOMAIN table[t]

\* C19: once the record of a token has expiration_time, no step changes the
\* record (its key of the payload, its items, its state, its expiration time),
\* and every create_callback and set_final_state that the table then applies
\* to the token fails the condition check.
C19_ImmutableOnceExpiring ==
    [][\A t \in Tokens :
          Expiring(cb, t) =>
              /\ t \in DOMAIN cb'
              /\ cb'[t] = cb[t]
              /\ (cblast'.n # cblast.n /\ cblast'.token = t)
                    => cblast'.outcome = "ConditionalCheckFailedException"]_vars

\* a set_final_state has resolved a token, and the create_callback that the
\* table applied to the token after it was rejected
C19_Witness ==
    /\ cblast.op = "create_callback"
    /\ cblast.outcome = "ConditionalCheckFailedException"
    /\ Len(resolves[cblast.token]) = 1
    /\ resolves[cblast.token][1].outcome = "ok"
    /\ Expiring(cb, cblast.token)
    /\ cb[cblast.token].workflow_state = resolves[cblast.token][1].state

C21_InvalidStateRaises ==
    (batch.op \in {"set_final_state", "set_final_state_multiple"}
        /\ batch.state \notin FINAL_STATES)
    => /\ batch.raised = "ValueError"
       /\ batch.outcomes = << >>
       /\ cb = batch.before

\* set_final_state_multiple has raised ValueError for PROCESSING, on a batch
\* with a token whose record is open, and the record is open still
C21_Witness ==
    /\ batch.op = "set_final_state_multiple"
    /\ batch.state = "PROCESSING"
    /\ batch.raised = "ValueError"
    /\ \E i \in 1..Len(batch.tokens) :
          /\ batch.tokens[i] \in DOMAIN cb
          /\ ~Expiring(cb, batch.tokens[i])

\* C24: create_callbacks never raises; when it has ended it has called
\* create_callback for every token of the batch, whatever the earlier calls
\* gave; and every token whose create_callback did not fail has a record with
\* the given payload key, items and state.
C24_CreateBestEffort ==
    batch.op = "create_callbacks" =>
        /\ batch.raised = "none"
        /\ BatchDone => Len(batch.outcomes) = Len(batch.tokens)
        /\ \A i \in 1..Len(batch.outcomes) :
              batch.outcomes[i] = "ok" =>
                  LET t == batch.tokens[i]
                  IN  /\ t \in DOMAIN cb
                      /\ cb[t].workflow_collections256_itemids256 = batch.key
                      /\ cb[t].collections_items = CallbackItems
                      /\ cb[t].workflow_state = batch.state

\* create_callbacks has ended: the create_callback of its first token failed
\* and that of its second token, another one, has stored the record
C24_Witness ==
    /\ batch.op = "create_callbacks"
    /\ BatchDone
    /\ Len(batch.tokens) = 2
    /\ batch.tokens[1] # batch.tokens[2]
    /\ batch.outcomes[1] # "ok"
    /\ batch.outcomes[2] = "ok"
    /\ cb[batch.tokens[2]].workflow_collections256_itemids256 = batch.key

\* C25: set_final_state_multiple with a final state never raises; when it has
\* ended it has called set_final_state for every token of the batch; every
\* token whose call passed is in the given state with expiration_time set; and
\* a call fails the condition only for a token that was resolved before it, so
\* a token that was not resolved and whose call the store did not fail is in
\* the given state.
C25_ResolveBestEffort ==
    (batch.op = "set_final_state_multiple" /\ batch.state \in FINAL_STATES) =>
        /\ batch.raised = "none"
        /\ BatchDone => Len(batch.outcomes) = Len(batch.tokens)
        /\ \A i \in 1..Len(batch.outcomes) :
              LET t == batch.tokens[i]
              IN  /\ batch.outcomes[i] = "ok" =>
                        /\ Expiring(cb, t)
                        /\ cb[t].workflow_state = batch.state
                  /\ batch.outcomes[i] = "ConditionalCheckFailedException" =>
                        \/ Expiring(batch.before, t)
                        \/ \E j \in 1..(i - 1) :
                              batch.tokens[j] = t /\ batch.outcomes[j] = "ok"

\* set_final_state_multiple has ended: its first token was resolved already
\* and its call failed the condition, its second token was open and is now in
\* the given state
C25_Witness ==
    /\ batch.op = "set_final_state_multiple"
    /\ BatchDone
    /\ batch.raised = "none"
    /\ Len(batch.tokens) = 2
    /\ batch.outcomes[1] = "ConditionalCheckFailedException"
    /\ batch.outcomes[2] = "ok"
    /\ batch.tokens[2] \in DOMAIN batch.before
    /\ cb[batch.tokens[2]].workflow_state = batch.state
    /\ cb[batch.tokens[1]].workflow_state # batch.state

\* the tokens of the records of a payload key, all of them or those in a state
\* that is not final
Registered(table, payload_key, exclude_final_states) ==
    { t \in DOMAIN table :
        /\ "workflow_collections256_itemids256" \in DOMAIN table[t]
        /\ table[t].workflow_collections256_itemids256 = payload_key
        /\ exclude_final_states => table[t].workflow_state \notin Terminal }

\* C22: a call of get_payload_callback_tokens that has ended within the page
\* cap has returned exactly the tokens of the records that hold the payload
\* key, without those in a final state when exclude_final_states is true.
C22_ExactTokens ==
    (scan.op # "none" /\ scan.outcome # "running" /\ ~scan.logged) =>
        /\ scan.outcome = "returned"
        /\ {scan.tokens[i] : i \in 1..Len(scan.tokens)}
              = Registered(cb, scan.payload_key, scan.exclude_final_states)

\* C23: a call of get_payload_callback_tokens makes at most MAX_PAGES queries
\* of the table, and when the cap has ended the loop it has logged the error
\* and returned.
C23_PageCap ==
    scan.op # "none" =>
        /\ scan.queries <= MAX_PAGES
        /\ scan.logged => scan.outcome = "returned"

\* C26: get_state gives the state of the record of the id, and "" for an id
\* that has none; get_states gives a map of exactly the asked ids that have a
\* record, each to its state, and does not raise.
C26_StatesOfRecords ==
    /\ answer.op = "get_state" =>
          answer.value = IF catid_to_key(ask.catid) \in DOMAIN db
                         THEN db[catid_to_key(ask.catid)].current_state[1]
                         ELSE ""
    /\ answer.op = "get_states" =>
          LET asked == {ask.catids[i] : i \in 1..Len(ask.catids)}
              known == {c \in asked : catid_to_key(c) \in DOMAIN db}
          IN  /\ answer.raised = "none"
              /\ DOMAIN answer.value = known
              /\ \A c \in known : answer.value[c] = db[catid_to_key(c)].current_state[1]

\* the records of a collection group in a state
InState(collection, state) ==
    { k \in DOMAIN db : k.input_collections = collection /\ db[k].current_state[1] = state }

RECURSIVE Total(_, _)
Total(counts, states) ==
    IF states = << >> THEN 0 ELSE counts[Head(states)].n + Total(counts, Tail(states))

InWindow ==
    { k \in InState(ask.collection, ask.state) :
        /\ ask.T - since_to_timedelta(ask.since).minutes <= db[k].current_state[2]
        /\ db[k].current_state[2] <= ask.T }

\* C28: a query for a group, a state and since=d at time T gives only records
\* of the group and state with a timestamp in [T - d, T], and gives all of
\* them when the page it gives is the last one.
C28_Window ==
    answer.op = "query" =>
        LET given_keys == {answer.Items[i] : i \in 1..Len(answer.Items)}
        IN  /\ answer.raised = "none"
            /\ given_keys \subseteq InWindow
            /\ answer.LastEvaluatedKey = 0 => given_keys = InWindow

\* a query has given a record in the window, with no page left, and the
\* group holds a record of the state stamped before T - d, which it has not given
C28_Witness ==
    /\ answer.op = "query"
    /\ answer.LastEvaluatedKey = 0
    /\ Len(answer.Items) = 1
    /\ \E k \in InState(ask.collection, ask.state) :
          /\ db[k].current_state[2] < ask.T - since_to_timedelta(ask.since).minutes
          /\ k # answer.Items[1]

\* the texts "<int><unit>": an int, as int() reads it, and a unit d, h or m
Digits(text) == text # << >> /\ \A i \in 1..Len(text) : text[i] \in {"0", "1", "2"}
Spaces(text) == \A i \in 1..Len(text) : text[i] = " "
IsInt(text) ==
    \E i \in 0..Len(text), j \in 0..Len(text) :
        /\ i <= j
        /\ Spaces(SubSeq(text, 1, i))
        /\ Spaces(SubSeq(text, j + 1, Len(text)))
        /\ LET body == SubSeq(text, i + 1, j)
           IN  \/ Digits(body)
               \/ body # << >> /\ Head(body) \in {"-", "+"} /\ Digits(Tail(body))
WellFormed(since) ==
    /\ since # << >>
    /\ since[Len(since)] \in {"d", "h", "m"}
    /\ IsInt(SubSeq(since, 1, Len(since) - 1))

\* C29: since_to_timedelta accepts the texts "<int><unit>" and raises for
\* every other text; get_items_page and get_counts given a since that is not
\* such a text raise without a query of the table.
C29_MalformedSince ==
    /\ answer.op = "since_to_timedelta" =>
          (answer.raised = "none" <=> WellFormed(ask.since))
    /\ (answer.op \in {"get_items_page", "get_counts"}
          /\ ask.since # NoSince /\ ~WellFormed(ask.since)) =>
              /\ answer.raised # "none"
              /\ answer.queries = 0

\* C30: when the claim of a caller of __call__ is rejected, the call returns
\* None with the table and the number of executions as they were, and the
\* caller makes no request of the table and starts no execution afterwards; a
\* caller goes on to start_execution only from its own claim that the table
\* has granted, and an execution is started only by such a caller.
C30_ConflictNotFatal ==
    [][\A p \in Procs :
          /\ (pc[p] = "claiming" /\ pc'[p] # "claiming"
                /\ last'.outcome = "ConditionalCheckFailedException")
                => /\ pc'[p] = "done"
                   /\ result'[p] = "None"
                   /\ db' = db
                   /\ started' = started
                   /\ req'[p] = Idle
          /\ result[p] = "None"
                => /\ pc'[p] = "done"
                   /\ result'[p] = "None"
                   /\ arn'[p] = 0
                   /\ req'[p] = Idle
          /\ (pc'[p] = "start" /\ pc[p] # "start")
                => /\ pc[p] = "claiming"
                   /\ last'.op = "claim_processing"
                   /\ last'.outcome = "ok"
          /\ arn'[p] # arn[p] => pc[p] = "start"
          /\ started' # started => \E q \in Procs : pc[q] = "start" /\ arn'[q] = started']_vars

\* a caller has returned None and has started nothing, while the caller whose
\* claim was granted has started the only execution and the record is PROCESSING
C30_Witness ==
    \E p, q \in Procs :
        /\ result[p] = "None"
        /\ arn[p] = 0
        /\ arn[q] # 0
        /\ started = 1
        /\ get_state(db, PayloadId) = "PROCESSING"

\* C31: a call of __call__ that is in its generic handler never returns: it
\* sends set_failed with the message of the handler, and ends by raising,
\* whether set_failed has returned or has raised; when set_failed has
\* returned, the record is FAILED with that message.
C31_FailureRaises ==
    [][\A p \in Procs :
          /\ pc[p] = "except" /\ pc'[p] # "except"
                => /\ pc'[p] = "failing"
                   /\ req'[p].op = "set_failed"
                   /\ req'[p].catid = PayloadId
                   /\ req'[p].arg = FailedMsg
          /\ pc[p] = "failing" /\ pc'[p] # "failing"
                => /\ pc'[p] = "done"
                   /\ result'[p] = "raised"
                   /\ last'.outcome = "ok"
                        => /\ get_state(db', PayloadId) = "FAILED"
                           /\ db'[catid_to_key(PayloadId)].error_message = FailedMsg
          /\ pc[p] \in {"except", "failing"} => result'[p] \notin {"id", "None"}]_vars

\* start_execution has raised after the caller's claim, set_failed has raised
\* too, and the call has ended by raising, the record left in PROCESSING
C31_Witness ==
    \E p \in Procs :
        /\ result[p] = "raised"
        /\ started = 0
        /\ last.op = "set_failed"
        /\ last.outcome = "ClientError"
        /\ get_state(db, PayloadId) = "PROCESSING"

----------------------------------------------------------------------------
(* SpecProcess: ProcessPayloads.process, for a list of payloads in which an *)
(* id may occur twice, over records in every state, while another caller    *)
(* may claim an id between two payloads of the list.                         *)
(* src/src/cirrus/lib/process_payload.py, lines 520-551.                     *)

\* a list has at most MaxPayloads payloads
MaxPayloads == 2

\* the ids of the payloads
RunIds == { <<"c", WF, "w", SL, "a">>, <<"c", WF, "w", SL, "b">> }

\* the states a record is made in; ABORTED is a state of cirrus.lib.statedb
RecordedStates == StateSet \cup {"ABORTED"}

\* a payload of the list: its id and process.get('replace', False)
RunPayloads == [id : RunIds, replace : BOOLEAN]

RECURSIVE PayloadLists(_)
PayloadLists(n) ==
    IF n = 0 THEN { << >> }
    ELSE PayloadLists(n - 1) \cup
         { Append(l, x) : l \in {m \in PayloadLists(n - 1) : Len(m) = n - 1},
                          x \in RunPayloads }

\* ProcessPayloads.get_states: the state of each id that has a record
process_get_states(table, payloads) ==
    [id \in {payloads[i].id : i \in 1..Len(payloads)} \cap
            {key_to_catid(k) : k \in DOMAIN table} |-> get_state(table, id)]

\* states.get(payload['id'], '')
states_get(states, id) == IF id \in DOMAIN states THEN states[id] ELSE ""

\* a test that lets every payload through
startable_any(state, replace) == TRUE

\* "state in ['FAILED', 'ABORTED', ''] or _replace"
startable(state, replace) == state \in {"FAILED", "ABORTED", ""} \/ replace

\* payload(): ProcessPayload.__call__ run to its end, with the fault that one
\* of its steps meets; ts is the clock before the call
call_payload(table, id, ts, fault) ==
    IF fault = "upload_json"
    THEN [table |-> set_failed(table, id, FailedMsg, ts + 1), returned |-> "raised"]
    ELSE IF ~claim_condition(table, id)
    THEN [table |-> table, returned |-> "None"]
    ELSE IF fault = "start_execution"
    THEN [table |-> set_failed(claim_processing(table, id, ts + 1), id, FailedMsg, ts + 2),
          returned |-> "raised"]
    ELSE [table |-> set_processing(claim_processing(table, id, ts + 1), id, "v1", ts + 2),
          returned |-> "id"]

Faults == {"none", "upload_json", "start_execution"}

\* a record is made, in any state
Recorded ==
    \E id \in RunIds, state \in RecordedStates :
        /\ run.op = "none"
        /\ catid_to_key(id) \notin DOMAIN db
        /\ db' = create_item(db, id, state, now + 1)
        /\ now' = now + 1
        /\ UNCHANGED <<run, notRun>>

\* process(replace) is called: states = self.get_states()
Process ==
    \E payloads \in PayloadLists(MaxPayloads) \ { << >> }, replace \in BOOLEAN :
        /\ run.op = "none"
        /\ run' = [op |-> "process", payloads |-> payloads, replace |-> replace,
                   states |-> process_get_states(db, payloads), at |-> 1,
                   payload_ids |-> << >>, log |-> << >>, claimed |-> FALSE]
        /\ UNCHANGED <<db, now, notRun>>

\* another caller claims an id while process is in its loop
OtherClaims ==
    \E id \in RunIds :
        /\ run.op = "process"
        /\ ~run.claimed
        /\ claim_condition(db, id)
        /\ db' = claim_processing(db, id, now + 1)
        /\ now' = now + 1
        /\ run' = [run EXCEPT !.claimed = TRUE]
        /\ UNCHANGED notRun

\* one turn of "for payload in self.payloads"
ProcessStep ==
    /\ run.op = "process"
    /\ run.at <= Len(run.payloads)
    /\ LET this == run.payloads[run.at]
           replace == run.replace \/ this.replace
           state == states_get(run.states, this.id)
       IN  IF this.id \in set(run.payload_ids)
           THEN /\ run' = [run EXCEPT !.at = @ + 1,
                              !.log = Append(@, [called |-> FALSE, returned |-> "none",
                                                 wrote |-> FALSE])]
                /\ UNCHANGED <<db, now>>
           ELSE IF startable(state, replace)
           THEN \E fault \in Faults :
                   LET out == call_payload(db, this.id, now, fault)
                   IN  /\ db' = out.table
                       /\ now' = now + 2
                       /\ run' = [run EXCEPT
                             !.op = IF out.returned = "raised" THEN "raised" ELSE @,
                             !.at = @ + 1,
                             !.payload_ids = IF out.returned = "id"
                                             THEN Append(@, this.id) ELSE @,
                             !.log = Append(@, [called |-> TRUE,
                                                returned |-> out.returned,
                                                wrote |-> out.table # db])]
           ELSE /\ run' = [run EXCEPT !.at = @ + 1,
                              !.log = Append(@, [called |-> FALSE, returned |-> "none",
                                                 wrote |-> FALSE])]
                /\ UNCHANGED <<db, now>>
    /\ UNCHANGED notRun

\* return payload_ids
ProcessReturns ==
    /\ run.op = "process"
    /\ run.at > Len(run.payloads)
    /\ run' = [run EXCEPT !.op = "returned"]
    /\ UNCHANGED <<db, now, notRun>>

NextProcess == Recorded \/ Process \/ OtherClaims \/ ProcessStep \/ ProcessReturns

InitProcess == StoreInit /\ CallIdle /\ KeyIdle /\ IdIdle /\ RestIdle

SpecProcess == InitProcess /\ [][NextProcess]_vars

\* the ids of the payloads whose call returned the id, in the order of the list
RECURSIVE Succeeded(_, _)
Succeeded(payloads, log) ==
    IF log = << >> THEN << >>
    ELSE LET n == Len(log)
             before == Succeeded(payloads, SubSeq(log, 1, n - 1))
         IN  IF log[n].returned = "id" THEN Append(before, payloads[n].id) ELSE before

----------------------------------------------------------------------------
(* SpecItems: get_items, which follows the nextkey of each page.              *)
(* src/cirruslib/statedb.py, lines 196-248.                                   *)

\* no ExclusiveStartKey is given
NoStartKey == [id |-> << >>]

\* limit=None of get_items, and limit=k
LimitNone == [given |-> FALSE, n |-> 0]
LimitOf(k) == [given |-> TRUE, n |-> k]

\* the items of the index after the item of the start key
rest_of_index(table, found, startkey) ==
    LET After(k) ==
            /\ [input_collections |-> k.input_collections, id |-> k.id]
                  # [input_collections |-> startkey.input_collections, id |-> startkey.id]
            /\ Before(startkey.current_state, table[k].current_state)
    IN  IF startkey = NoStartKey THEN found ELSE SelectSeq(found, After)

\* self.query(collection, state, since=since, Limit=limit,
\* ExclusiveStartKey=startkey): the items that meet the condition, in the order
\* of the index, from the start key on, a page of them
query_page(table, collection, state, since, startkey, page, clock) ==
    the({ IF all.raised # "none"
          THEN [raised |-> all.raised, Items |-> << >>, LastEvaluatedKey |-> NoStartKey,
                queries |-> 0, readings |-> 0]
          ELSE the({ [raised |-> "none",
                      Items |-> SubSeq(rest, 1, min(page, Len(rest))),
                      LastEvaluatedKey |->
                          IF Len(rest) > page
                          THEN [input_collections |-> rest[page].input_collections,
                                id |-> rest[page].id,
                                current_state |-> table[rest[page]].current_state]
                          ELSE NoStartKey,
                      queries |-> 1, readings |-> all.readings] :
                     rest \in { rest_of_index(table, all.Items, startkey) } }) :
          all \in { query(table, collection, state, since,
                          [ExclusiveStartKey |-> 0,
                           page |-> Cardinality(DOMAIN table) + 1,
                           clock |-> clock]) } })

\* the start key that get_items_page makes of a nextkey: the item of
\* get_dbitem(nextkey), cut to its keys; TypeError when there is no such item
start_key(table, nextkey) ==
    LET key == catid_to_key(nextkey)
    IN  IF key \in DOMAIN table
        THEN [raised |-> "none",
              startkey |-> [input_collections |-> table[key].input_collections,
                            id |-> table[key].id,
                            current_state |-> table[key].current_state]]
        ELSE [raised |-> "TypeError", startkey |-> NoStartKey]

\* get_items_page(collection, state, since, nextkey=nextkey): the items of the
\* page, each through dbitem_to_item, and the nextkey of the page
items_page(c, nextkey, clock) ==
    the({ IF start.raised # "none"
          THEN [raised |-> start.raised, items |-> << >>, nextkey |-> << >>,
                queries |-> 0, readings |-> 0]
          ELSE the({ IF resp.raised # "none"
                     THEN [raised |-> resp.raised, items |-> << >>, nextkey |-> << >>,
                           queries |-> resp.queries, readings |-> resp.readings]
                     ELSE IF \E i \in 1..Len(resp.Items) :
                                 dbitem_to_item(c.table[resp.Items[i]]).raised # "none"
                     THEN [raised |-> "KeyError", items |-> << >>, nextkey |-> << >>,
                           queries |-> resp.queries, readings |-> resp.readings]
                     ELSE [raised |-> "none",
                           items |-> [i \in 1..Len(resp.Items) |->
                                         dbitem_to_item(c.table[resp.Items[i]]).catid],
                           nextkey |-> IF resp.LastEvaluatedKey = NoStartKey THEN << >>
                                       ELSE key_to_catid(resp.LastEvaluatedKey),
                           queries |-> resp.queries, readings |-> resp.readings] :
                     resp \in { query_page(c.table, c.collection, c.state, c.since,
                                           start.startkey, c.page, clock) } }) :
          start \in { IF nextkey = << >>
                      THEN [raised |-> "none", startkey |-> NoStartKey]
                      ELSE start_key(c.table, nextkey) } })

\* "limit is None or len(items) < limit"
under_limit(limit, n) == ~limit.given \/ n < limit.n

\* a loop that goes on while a nextkey is given, whatever the limit
always_under_limit(limit, n) == TRUE

\* "'nextkey' in resp and (limit is None or len(items) < limit)"
more_pages(resp, limit, n) == resp.nextkey # << >> /\ under_limit(limit, n)

\* get_items: the first page, then the page of each nextkey; items are the
\* items so far, queries and readings those of the pages so far
RECURSIVE get_items_loop(_, _, _, _, _)
get_items_loop(c, resp, items, queries, readings) ==
    IF more_pages(resp, c.limit, Len(items))
    THEN the({ IF next.raised # "none"
               THEN [raised |-> next.raised, items |-> << >>,
                     queries |-> queries + next.queries,
                     readings |-> readings + next.readings]
               ELSE the({ get_items_loop(c, next, got, asked, read) :
                          got \in {items \o next.items},
                          asked \in {queries + next.queries},
                          read \in {readings + next.readings} }) :
               next \in { items_page(c, resp.nextkey, c.clock + readings) } })
    ELSE [raised |-> "none",
          items |-> IF under_limit(c.limit, Len(items)) THEN items
                    ELSE SubSeq(items, 1, c.limit.n),
          queries |-> queries, readings |-> readings]

get_items(c) ==
    the({ IF resp.raised # "none"
          THEN [raised |-> resp.raised, items |-> << >>, queries |-> resp.queries,
                readings |-> resp.readings]
          ELSE get_items_loop(c, resp, resp.items, resp.queries, resp.readings) :
          resp \in { items_page(c, << >>, c.clock) } })

\* the limits asked for
Limits == {LimitNone} \cup {LimitOf(k) : k \in 0..MaxLimit}

\* the since of a list: none, or one of the windows
ListSince == {NoSince} \cup Windows

\* get_items(collection, state, since=since, limit=limit) is called
GetItems ==
    \E collection \in Groups, state \in AskedStates, since \in ListSince,
       limit \in Limits, page \in 1..MaxPageSize :
        /\ ask.op = "none"
        /\ ask' = [op |-> "get_items", collection |-> collection, state |-> state,
                   since |-> since, limit |-> limit, page |-> page, T |-> now + 1]
        /\ LET got == get_items([table |-> db, collection |-> collection,
                                 state |-> state, since |-> since, limit |-> limit,
                                 page |-> page, clock |-> now])
           IN  /\ answer' = [op |-> "get_items"] @@ got
               /\ now' = now + got.readings
        /\ UNCHANGED <<db, notAsk>>

NextGetItems == StoreWrite \/ GetItems

InitGetItems == StoreInit /\ CallIdle /\ KeyIdle /\ IdIdle /\ RestIdle

SpecItems == InitGetItems /\ [][NextGetItems]_vars

\* the ids of the records of the group asked for, of the state when one is
\* given, and stamped at T - d or later when since=d is given
Matches(T) ==
    { key_to_catid(k) : k \in
        { k \in DOMAIN db :
            /\ k.input_collections = ask.collection
            /\ ask.state # NoState => db[k].current_state[1] = ask.state
            /\ ask.since # NoSince =>
                  T - since_to_timedelta(ask.since).minutes <= db[k].current_state[2] } }

\* the first reading of the clock by the last page of the call
LastT == IF answer.readings = 0 THEN ask.T ELSE ask.T + answer.readings - 2

\* C33: get_items ends and gives each record that matches the group, the
\* state and since once, whatever the size of a page: all of them with no
\* limit, and min(k, their number) of them with limit=k. A record matches when
\* it does at the time of the first page, and is owed when it still does at
\* the time of the last.
C33_EveryRecordOnce ==
    answer.op = "get_items" =>
        /\ answer.raised = "none"
        /\ \A i, j \in 1..Len(answer.items) :
              answer.items[i] = answer.items[j] => i = j
        /\ set(answer.items) \subseteq Matches(ask.T)
        /\ IF ask.limit.given
           THEN /\ Len(answer.items) <= ask.limit.n
                /\ Len(answer.items) >= min(ask.limit.n, Cardinality(Matches(LastT)))
           ELSE Matches(LastT) \subseteq set(answer.items)

\* C34: a list with since=d at time T gives only records stamped at T - d or
\* later, whether a state is given or not.
C34_SinceWithoutState ==
    (answer.op = "get_items" /\ answer.raised = "none" /\ ask.since # NoSince) =>
        \A i \in 1..Len(answer.items) :
            LET k == catid_to_key(answer.items[i])
            IN  ask.T - since_to_timedelta(ask.since).minutes <= db[k].current_state[2]

\* C35: while a caller of __call__ is past its own claim and has not come to
\* its end or to its handler, the record is PROCESSING: no other caller, whose
\* claim has not been granted, moves it to another state.
C35_LoserLeavesRecord ==
    \A q \in Procs :
        pc[q] \in {"start", "record", "recording"} =>
            get_state(db, PayloadId) = "PROCESSING"

\* C36: every record of the table carries created_at and output_collections,
\* the fields that dbitem_to_item reads, whatever operations have made it.
C36_ListingFields ==
    \A k \in DOMAIN db :
        /\ {"created_at", "output_collections"} \subseteq DOMAIN db[k]
        /\ dbitem_to_item(db[k]).raised = "none"

\* C37: a record of the callback table holds an expiration_time exactly when
\* its workflow_state is a final state.
C37_ExpirationIffFinal ==
    \A t \in DOMAIN cb :
        "expiration_time" \in DOMAIN cb[t] <=> cb[t].workflow_state \in FINAL_STATES

\* create_callback with a final state has been applied over the record that
\* an earlier create_callback left unresolved
C37_Witness ==
    \E t \in Tokens :
        /\ DOMAIN cb = {t}
        /\ cblast.op = "create_callback"
        /\ cblast.outcome = "ok"
        /\ cblast.n = 2
        /\ \A u \in Tokens : resolves[u] = << >>
        /\ cb[t].workflow_state \in FINAL_STATES
        /\ "expiration_time" \in DOMAIN cb[t]

\* C38: every record of the callback table holds the payload key
\* (workflow_collections256_itemids256) and collections_items.
C38_FingerprintAndItems ==
    \A t \in DOMAIN cb :
        {"workflow_collections256_itemids256", "collections_items"} \subseteq DOMAIN cb[t]

----------------------------------------------------------------------------
(* SpecFan: the branches of a fork register callback tokens for a payload   *)
(* key while the resolving branch looks the tokens of the key up and then   *)
(* resolves the tokens it was given.  No call of the table fails.  The      *)
(* resolving branch is an invocation that runs on, so its steps are fair;   *)
(* a branch may or may not register.                                        *)
(* src/src/cirrus/lib/callbackdb.py, lines 61-97, 130-179 and 214-242.      *)

\* the tokens the branches register, and the payload key of the fork
FanTokens == {Token(i) : i \in 1..MaxSmall}
FanKey == "k1"

\* set_final_state_multiple(callback_tokens, final_state) when no call of the
\* table fails: set_final_state for each token, which the table rejects for a
\* record that holds an expiration time
RECURSIVE resolve_each(_, _, _, _)
resolve_each(table, tokens, final_state, clock) ==
    IF tokens = << >> THEN table
    ELSE the({ resolve_each(after, Tail(tokens), final_state, clock + 1) :
               after \in { IF attribute_not_exists_expiration_time(table, Head(tokens))
                           THEN set_final_state(table, Head(tokens), final_state,
                                                find_expiration_time(clock + 1))
                           ELSE table } })

\* a branch registers its token: create_callback with a state in progress
Register ==
    \E t \in FanTokens, k \in PayloadKeys :
        /\ batch.op = "none"
        /\ t \notin DOMAIN cb
        /\ cb' = create_callback(cb, t, StoredRecord(t, k, "PROCESSING"))
        /\ UNCHANGED <<scan, early, cbreq, cblast, resolves, batchVars, askVars, runVars>>

\* the resolving branch calls get_payload_callback_tokens(payload_key)
Lookup ==
    \E size \in 1..MaxPageSize :
        /\ scan.op = "none"
        /\ scan' = [op |-> "get_payload_callback_tokens", payload_key |-> FanKey,
                    exclude_final_states |-> TRUE, size |-> size, page |-> 0,
                    start |-> 0, queries |-> 0, tokens |-> << >>,
                    logged |-> FALSE, outcome |-> "running"]
        /\ UNCHANGED <<cb, notScan>>

\* the resolving branch calls set_final_state_multiple on the tokens it got
ResolveMany ==
    /\ scan.op # "none"
    /\ scan.outcome = "returned"
    /\ batch.op = "none"
    /\ check_final_state("COMPLETED") = "ok"
    /\ cb' = resolve_each(cb, scan.tokens, "COMPLETED", now)
    /\ now' = now + Len(scan.tokens)
    /\ batch' = [NewBatch("set_final_state_multiple", scan.tokens, FanKey, "COMPLETED",
                          "none") EXCEPT !.at = Len(scan.tokens) + 1]
    /\ UNCHANGED <<cblast, notBatch>>

NextFan == Register \/ Lookup \/ QueryPage \/ ResolveMany

InitFan == StoreInit /\ CallIdle /\ KeyIdle /\ IdIdle /\ RestIdle

SpecFan ==
    /\ InitFan
    /\ [][NextFan]_vars
    /\ WF_vars(Lookup)
    /\ WF_vars(QueryPage)
    /\ WF_vars(ResolveMany)

\* token t is registered for the payload key of the fork in a state in progress
Waiting(t) ==
    /\ t \in DOMAIN cb
    /\ cb[t].workflow_collections256_itemids256 = FanKey
    /\ cb[t].workflow_state \in IN_PROGRESS_STATES

\* C39: a token registered for the payload key in a state in progress, before
\* the resolving branch calls set_final_state_multiple, is in a final state in
\* the end.
C39_NoLostWakeup ==
    \A t \in FanTokens : Waiting(t) ~> ~Waiting(t)

\* C40: the successors that next_payloads yields for the branches of a fork
\* get different ids from ProcessPayload(..., update=True), so that each can
\* be claimed.
C40_SiblingsDistinct ==
    \A r \in 1..Len(derived) :
        \A k, j \in 1..Len(derived[r]) :
            (k # j /\ derived[r][k].outcome = "ok" /\ derived[r][j].outcome = "ok")
                => derived[r][k].payload.id # derived[r][j].payload.id

====
